---- MODULE Spec2Model ----
(***************************************************************************)
(* Vote intake, cooldown engine and persistent store of the sn77 server.   *)
(* The POST /updateVotes handler is modelled step by step: from the read   *)
(* of the current vote on, every `await` of the handler (and of the        *)
(* helpers it calls) is one action, so that concurrent requests interleave *)
(* exactly where the event loop lets them.  Times are milliseconds, as in  *)
(* the source.                                                             *)
(***************************************************************************)
EXTENDS Integers, Sequences, FiniteSets, TLC

VARIABLES
    now,                  \* wall clock read by `new Date()` (ms)
    chainBlock,           \* block returned by fetchCurrentBittensorBlock
    holdersCache,         \* holdersCache.data: the holder snapshot
    user_votes,           \* relation user_votes, keyed by ss58Address
    vote_change_history,  \* relation vote_change_history, in insertion order
    pool_info,            \* relation pool_info: addresses that have a row
    reqs,                 \* the in-flight POST /updateVotes requests
    response,             \* the request that returned last: what it saw and did
    submitted,            \* number of requests received so far
    ticks,                \* number of clock advances so far
    accepted,             \* history: per voter, the last accepted vote change
    probe,                \* input and output of a pure-function evaluation
    address_map,          \* relation address_map: the rows (bindings)
    claims,               \* the in-flight POST /claimAddress requests
    claimResponse,        \* the claim that returned last: what it did
    liquidityPositionsCache, \* liquidityPositionsCache: data and lastUpdated
    poolTick,             \* subgraph: the current tick of each pool
    positionCalls,        \* the in-flight getMinerPositions calls
    positionsResult,      \* what getMinerPositions returned last
    ipRequestCounts,      \* ipRequestCounts: client IP -> { count, resetTime }
    addressRequestCounts, \* addressRequestCounts: key -> { count, resetTime }
    admitted,             \* history: per key, the checks checkRateLimit admitted
    holdersCacheState,    \* holdersCache: is data still null, and lastUpdated
    chainStakes,          \* chain: hotkey -> coldkey -> alpha stake
    holderScans,          \* the fetchAllHolders calls in flight
    scanResults,          \* history: what the successful scans returned
    server,               \* startServer: where it is, and what it has started
    VERSION,              \* the contents of the VERSION file, trimmed
    pings,                \* the number of POST /ping requests received
    pingCall,             \* the POST /ping request awaiting the chain block
    pingResponse,         \* what POST /ping answered last
    watcher               \* the supervising watcher: child, intentionalExit, its timers, the children forked

vars == <<now, chainBlock, holdersCache, user_votes, vote_change_history,
          pool_info, reqs, response, submitted, ticks, accepted, probe,
          address_map, claims, claimResponse,
          liquidityPositionsCache, poolTick, positionCalls, positionsResult,
          ipRequestCounts, addressRequestCounts, admitted, holdersCacheState,
          chainStakes, holderScans, scanResults, server, VERSION, pings,
          pingCall, pingResponse, watcher>>

\* The state of POST /claimAddress.
claimVars == <<address_map, claims, claimResponse>>

\* The state of getMinerPositions and of the subgraph it reads.
positionVars == <<liquidityPositionsCache, poolTick, positionCalls,
                   positionsResult>>

\* The rate-limit maps.
rateVars == <<ipRequestCounts, addressRequestCounts, admitted>>

\* The holder snapshot, the chain it is read from, and start-up.
holderVars == <<holdersCacheState, chainStakes, holderScans, scanResults,
                 server>>

\* The state of POST /ping.
pingVars == <<VERSION, pings, pingCall, pingResponse>>

\* The supervising watcher and the server processes it forks.
watcherVars == <<watcher>>

\* The caches, rate-limit maps and start-up state of the server process.
serverVars == <<positionVars, rateVars, holderVars, pingVars, watcherVars>>

(***************************************************************************)
(* Bounds of the model.                                                    *)
(***************************************************************************)
MaxRequests == 3
MaxTicks == 1
MaxChainAdvance == 1
MaxChangeCount == 8
MaxSequential == 2
MaxClaims == 2
StartBlock == 20

(***************************************************************************)
(* Program constants.                                                      *)
(***************************************************************************)
VOTE_CHANGE_COOLDOWN_MS == 72 * 60 * 1000
PROGRESSIVE_COOLDOWN_MULTIPLIER == 2
MAX_COOLDOWN_MS == 8 * 60 * 60 * 1000
FREQUENT_CHANGE_THRESHOLD == 3
COOLDOWN_RESET_PERIOD_MS == 24 * 60 * 60 * 1000
MAX_POOLS_PER_REQUEST == 10
VOTE_WEIGHT_TOTAL == 10000
BLOCK_WINDOW == 10
ADDRESS_HEX_DIGITS == 40

(***************************************************************************)
(* Optional values: null is the empty tuple, a value v is <<v>>.           *)
(***************************************************************************)
Null == <<>>
Some(v) == <<v>>
IsNull(o) == o = <<>>
Val(o) == o[1]

Min(a, b) == IF a <= b THEN a ELSE b

(***************************************************************************)
(* JavaScript numbers as far as the handler meets them: finite integers,   *)
(* Infinity and NaN.                                                       *)
(***************************************************************************)
Num(n) == [kind |-> "finite", val |-> n]
Infinity == [kind |-> "Infinity", val |-> 0]
NaN == [kind |-> "NaN", val |-> 0]

IsNaN(x) == x.kind = "NaN"

\* a + b for a, b that are NaN, +Infinity or finite.
JsAdd(a, b) ==
    IF IsNaN(a) \/ IsNaN(b) THEN NaN
    ELSE IF a.kind = "Infinity" \/ b.kind = "Infinity" THEN Infinity
    ELSE Num(a.val + b.val)

\* a - b for a finite and b NaN or finite (b is a sum of rounded weights).
JsSub(a, b) ==
    IF IsNaN(a) \/ IsNaN(b) THEN NaN
    ELSE Num(a.val - b.val)

\* x <= 0
JsLeqZero(x) == x.kind = "finite" /\ x.val <= 0

\* x !== n for an integer n
JsNotEqualInt(x, n) == ~(x.kind = "finite" /\ x.val = n)

\* Math.round(q) for the rational q = num / den, den > 0: the nearest
\* integer, ties towards +Infinity.
RoundRatio(num, den) ==
    (num \div den) + (IF 2 * (num % den) >= den THEN 1 ELSE 0)

\* Number(s) for the weight strings and block strings of the model.
Number(s) ==
    CASE s = "1" -> Num(1)
      [] s = "2" -> Num(2)
      [] s = "3" -> Num(3)
      [] s = "39994" -> Num(39994)
      [] s = "100000" -> Num(100000)
      [] s = "0" -> Num(0)
      [] s = "-1" -> Num(-1)
      [] s = "9" -> Num(9)
      [] s = "10" -> Num(10)
      [] s = "20" -> Num(20)
      [] s = "21" -> Num(21)
      [] s = "Infinity" -> Infinity
      [] OTHER -> NaN

(***************************************************************************)
(* Pool addresses are strings, modelled as tuples of characters.           *)
(***************************************************************************)
HexDigits ==
    {"0", "1", "2", "3", "4", "5", "6", "7", "8", "9",
     "a", "b", "c", "d", "e", "f", "A", "B", "C", "D", "E", "F"}

\* String.prototype.toLowerCase, character by character.
LowerChar(c) ==
    CASE c = "A" -> "a"
      [] c = "B" -> "b"
      [] c = "C" -> "c"
      [] c = "D" -> "d"
      [] c = "E" -> "e"
      [] c = "F" -> "f"
      [] c = "X" -> "x"
      [] OTHER -> c

toLowerCase(s) == [i \in DOMAIN s |-> LowerChar(s[i])]

\* /^0x[a-fA-F0-9]{40}$/.test(poolAddress)
AddressFormatOk(s) ==
    /\ Len(s) = 2 + ADDRESS_HEX_DIGITS
    /\ s[1] = "0"
    /\ s[2] = "x"
    /\ \A i \in 3..Len(s) : s[i] \in HexDigits

(***************************************************************************)
(* POST /updateVotes: parsing of the pool entries.                         *)
(* An entry is [poolAddress, weightStr], the two parts of entry.split(',');*)
(* a missing part is the empty string.                                     *)
(***************************************************************************)
ParseOk(pools, totalWeight) ==
    [error |-> "", pools |-> pools, totalWeight |-> totalWeight]
ParseError(msg) ==
    [error |-> msg, pools |-> <<>>, totalWeight |-> Num(0)]

RECURSIVE ParseEntries(_, _, _, _)
ParseEntries(poolEntries, i, pools, totalWeight) ==
    IF i > Len(poolEntries) THEN ParseOk(pools, totalWeight)
    ELSE LET poolAddress == poolEntries[i].poolAddress
             weightStr == poolEntries[i].weightStr
             weight == Number(weightStr)
         IN  IF poolAddress = <<>> \/ weightStr = ""
                 THEN ParseError("Invalid pool entry format")
             ELSE IF ~AddressFormatOk(poolAddress)
                 THEN ParseError("Invalid pool address format")
             ELSE IF IsNaN(weight)
                 THEN ParseError("Invalid weight value")
             ELSE IF JsLeqZero(weight)
                 THEN ParseError("Weight must be positive")
             ELSE ParseEntries(poolEntries, i + 1,
                      Append(pools, [address |-> toLowerCase(poolAddress),
                                     weight |-> weight]),
                      JsAdd(totalWeight, weight))

ParsePools(poolEntries) ==
    IF Len(poolEntries) > MAX_POOLS_PER_REQUEST THEN ParseError("Too many pools")
    ELSE LET parsed == ParseEntries(poolEntries, 1, <<>>, Num(0))
         IN  IF parsed.error # "" THEN parsed
             ELSE IF Len(parsed.pools) = 0
                 THEN ParseError("No valid pools specified")
             ELSE parsed

(***************************************************************************)
(* POST /updateVotes: normalization of the weights.                        *)
(***************************************************************************)
\* Math.round((pool.weight / totalWeight) * VOTE_WEIGHT_TOTAL), weight > 0.
NormalizedWeight(weight, totalWeight) ==
    IF totalWeight.kind = "Infinity"
        THEN IF weight.kind = "Infinity" THEN NaN ELSE Num(0)
    ELSE Num(RoundRatio(weight.val * VOTE_WEIGHT_TOTAL, totalWeight.val))

RECURSIVE SumWeights(_, _)
SumWeights(pools, i) ==
    IF i > Len(pools) THEN Num(0)
    ELSE JsAdd(pools[i].weight, SumWeights(pools, i + 1))

\* The adjustment of the last pool when the rounded weights miss the total.
AdjustLast(normalized, finalSum) ==
    LET diff == JsSub(Num(VOTE_WEIGHT_TOTAL), finalSum)
        last == Len(normalized)
    IN  [normalized EXCEPT ![last].weight = JsAdd(@, diff)]

NormalizePools(pools, totalWeight) ==
    LET normalized == [i \in DOMAIN pools |->
                          [address |-> pools[i].address,
                           weight |-> NormalizedWeight(pools[i].weight, totalWeight)]]
        finalSum == SumWeights(normalized, 1)
    IN  IF JsNotEqualInt(finalSum, VOTE_WEIGHT_TOTAL)
            THEN AdjustLast(normalized, finalSum)
        ELSE normalized

\* JSON.stringify(normalizedPools): NaN and Infinity are written as null.
JsonNumber(x) == IF x.kind = "finite" THEN x ELSE [kind |-> "null", val |-> 0]
JSONstringify(pools) ==
    [i \in DOMAIN pools |->
        [address |-> pools[i].address, weight |-> JsonNumber(pools[i].weight)]]

(***************************************************************************)
(* Cooldown engine.                                                        *)
(* A vote_change_history row is                                            *)
(*   [ss58Address, old_pools, new_pools, change_timestamp, cooldown_until, *)
(*    change_count]; timestamps are the ISO strings of the source, which   *)
(* order as the instants they denote, and are modelled as ms.              *)
(***************************************************************************)
RECURSIVE Pow(_, _)
\* Math.pow(base, exponent) for an exponent >= 0.
Pow(base, exponent) ==
    IF exponent = 0 THEN 1 ELSE base * Pow(base, exponent - 1)

\* calculateCooldownDuration with the exponent one too small.
calculateCooldownDurationLate(changeCount) ==
    IF changeCount < FREQUENT_CHANGE_THRESHOLD THEN VOTE_CHANGE_COOLDOWN_MS
    ELSE Min(VOTE_CHANGE_COOLDOWN_MS *
                 Pow(PROGRESSIVE_COOLDOWN_MULTIPLIER,
                     changeCount - FREQUENT_CHANGE_THRESHOLD),
             MAX_COOLDOWN_MS)

\* calculateCooldownDuration without the cap.
calculateCooldownDurationUncapped(changeCount) ==
    IF changeCount < FREQUENT_CHANGE_THRESHOLD THEN VOTE_CHANGE_COOLDOWN_MS
    ELSE VOTE_CHANGE_COOLDOWN_MS *
             Pow(PROGRESSIVE_COOLDOWN_MULTIPLIER,
                 changeCount - FREQUENT_CHANGE_THRESHOLD + 1)

calculateCooldownDuration(changeCount) ==
    IF changeCount < FREQUENT_CHANGE_THRESHOLD THEN VOTE_CHANGE_COOLDOWN_MS
    ELSE LET multiplier == Pow(PROGRESSIVE_COOLDOWN_MULTIPLIER,
                               changeCount - FREQUENT_CHANGE_THRESHOLD + 1)
             duration == VOTE_CHANGE_COOLDOWN_MS * multiplier
         IN  Min(duration, MAX_COOLDOWN_MS)

\* Rows of one voter.
RowsOf(history, ss58Address) ==
    {i \in DOMAIN history : history[i].ss58Address = ss58Address}

\* ... WHERE ss58Address = ? ORDER BY change_timestamp DESC LIMIT 1:
\* the candidates for the row returned (rows with equal timestamps tie).
LatestRows(history, ss58Address) ==
    {history[i] : i \in
        {j \in RowsOf(history, ss58Address) :
            \A k \in RowsOf(history, ss58Address) :
                history[k].change_timestamp <= history[j].change_timestamp}}

\* The possible results of that query: null when the voter has no row.
LatestRecords(history, ss58Address) ==
    IF RowsOf(history, ss58Address) = {} THEN {Null}
    ELSE {Some(row) : row \in LatestRows(history, ss58Address)}

\* checkVoteCooldown: is the voter in cooldown at time t?
CooldownActive(cooldownRecord, t) ==
    ~IsNull(cooldownRecord) /\ t < Val(cooldownRecord).cooldown_until

\* checkVoteCooldown: Math.ceil(remainingMs / (1000 * 60))
RemainingMinutes(cooldownRecord, t) ==
    LET remainingMs == Val(cooldownRecord).cooldown_until - t
    IN  (remainingMs + 60000 - 1) \div 60000

\* The inactivity reset with the boundary on the other side.
EffectiveChangeCountStrict(cooldownRecord, t) ==
    IF IsNull(cooldownRecord) THEN 0
    ELSE IF t - Val(cooldownRecord).change_timestamp >= COOLDOWN_RESET_PERIOD_MS
        THEN 0
    ELSE Val(cooldownRecord).change_count

\* checkVoteCooldown: the change count after the inactivity reset.
EffectiveChangeCount(cooldownRecord, t) ==
    IF IsNull(cooldownRecord) THEN 0
    ELSE IF t - Val(cooldownRecord).change_timestamp > COOLDOWN_RESET_PERIOD_MS
        THEN 0
    ELSE Val(cooldownRecord).change_count

\* checkVoteCooldown once both queries have answered with a vote that
\* differs from newPools: [allowed, remaining minutes of the error message,
\* cooldownDuration], with the local effectiveChangeCount beside them.
CooldownDecision(cooldownRecord, t) ==
    IF CooldownActive(cooldownRecord, t)
        THEN [allowed |-> FALSE,
              remainingMinutes |-> RemainingMinutes(cooldownRecord, t),
              effectiveChangeCount |-> 0,
              cooldownDuration |-> Null]
    ELSE LET effectiveChangeCount == EffectiveChangeCount(cooldownRecord, t)
         IN  [allowed |-> TRUE,
              remainingMinutes |-> 0,
              effectiveChangeCount |-> effectiveChangeCount,
              cooldownDuration |->
                  Some(calculateCooldownDuration(effectiveChangeCount))]

\* recordVoteChange: the change_count of the row to insert.
RecordChangeCount(currentRecord, t) ==
    IF IsNull(currentRecord) THEN 1
    ELSE IF t - Val(currentRecord).change_timestamp > COOLDOWN_RESET_PERIOD_MS
        THEN 1
    ELSE Val(currentRecord).change_count + 1

\* recordVoteChange: the row inserted.
ChangeRow(ss58Address, oldPools, newPools, t, cooldownDuration, changeCount) ==
    [ss58Address |-> ss58Address,
     old_pools |-> oldPools,
     new_pools |-> newPools,
     change_timestamp |-> t,
     cooldown_until |-> t + cooldownDuration,
     change_count |-> changeCount]

\* The DELETE taking the rows whose cooldown ends at this very instant too.
ExpiredRowsDeletedInclusive(history, t) ==
    SelectSeq(history, LAMBDA row : ~(row.cooldown_until <= t))

\* cleanupExpiredCooldowns: DELETE ... WHERE cooldown_until < now
ExpiredRowsDeleted(history, t) ==
    SelectSeq(history, LAMBDA row : ~(row.cooldown_until < t))

(***************************************************************************)
(* Inputs of the model.                                                    *)
(***************************************************************************)
Slots == {1, 2}
Voters == {"5Alice"}

\* The addresses the store has a place for: the voter, a holder whose alpha
\* balance is zero, and an address outside the holder snapshot.
Addresses == Voters \cup {"5Bob", "5Carol"}

\* holdersCache.data as fetchAllHolders builds it: one entry per coldkey
\* with a stake entry on the subnet; alpha_unscaled / 1e9 rounds a small
\* stake down to 0.
HolderSnapshot ==
    {[address |-> "5Alice", alphaBalanceRaw |-> 100],
     [address |-> "5Bob", alphaBalanceRaw |-> 0]}

\* The address "0x" followed by forty times the character c.
Address(c) == <<"0", "x">> \o [i \in 1..ADDRESS_HEX_DIGITS |-> c]
PoolA == Address("a")
PoolB == Address("b")
PoolC == Address("c")
PoolD == Address("d")
PoolE == Address("e")
PoolAUpper == Address("A")

\* The pools the Uniswap V3 factory knows (lowercase form); PoolE is an
\* address the factory does not know.
FactoryPoolChars == <<"a", "b", "c", "d", "1", "2", "3", "4", "5", "6", "7">>
UniswapV3Pools == {Address(FactoryPoolChars[i]) : i \in DOMAIN FactoryPoolChars}

Entry(poolAddress, weightStr) ==
    [poolAddress |-> poolAddress, weightStr |-> weightStr]

\* The pool lists submitted concurrently.
VoteInputs ==
    {<<Entry(PoolA, "1")>>, <<Entry(PoolB, "1")>>}

\* The block numbers submitted, relative to the chain block c.
BlockChoices(c) == {c - BLOCK_WINDOW - 1, c - BLOCK_WINDOW, c, c + 1}

\* The steps by which the clock advances.
TickSteps == {1000, VOTE_CHANGE_COOLDOWN_MS, COOLDOWN_RESET_PERIOD_MS}

(***************************************************************************)
(* State of a request.  The fields are the handler's local variables; the  *)
(* last three record what the request saw and did, for the properties.     *)
(***************************************************************************)
NoResult == [success |-> FALSE, error |-> "", until |-> Null]
Success == [success |-> TRUE, error |-> "", until |-> Null]
Failure(msg) == [success |-> FALSE, error |-> msg, until |-> Null]
CooldownFailure(until) ==
    [success |-> FALSE, error |-> "Vote change blocked by cooldown", until |-> until]

IdleReq ==
    [pc |-> "idle", address |-> "", poolEntries |-> <<>>, blockNumber |-> 0,
     normalizedPools |-> <<>>,
     oldPoolsJson |-> Null, hasVoteChange |-> FALSE, cooldownDuration |-> Null,
     recordDuration |-> Null, existing |-> FALSE, recordNow |-> 0,
     changeCount |-> 0,
     arrivedAt |-> 0, priorAccepted |-> Null, seenRecord |-> Null]

\* What a returned request leaves behind: the body of the response and what
\* the request saw and did.
Returned(req, result, appended) ==
    [returned |-> TRUE, address |-> req.address, result |-> result,
     poolEntries |-> req.poolEntries,
     blockNumber |-> req.blockNumber,
     oldPoolsJson |-> req.oldPoolsJson,
     hasVoteChange |-> req.hasVoteChange,
     cooldownDuration |-> req.cooldownDuration,
     arrivedAt |-> req.arrivedAt,
     priorAccepted |-> req.priorAccepted,
     seenRecord |-> req.seenRecord,
     appended |-> appended]

NoResponse ==
    [Returned(IdleReq, NoResult, <<>>) EXCEPT !.returned = FALSE]

\* The pcs between the read of the current vote and the response.
SectionPcs ==
    {"check1_vote", "check1_hist", "status", "upsert_get", "upsert_run",
     "check2_vote", "check2_hist", "record_get", "record_run"}

\* A POST /claimAddress request: the body and the handler's local variables.
IdleClaim ==
    [pc |-> "idle", address |-> <<>>, signature |-> Null, message |-> <<>>,
     currentChainBlock |-> 0, existing |-> Null]

ClaimSuccess(message) == [success |-> TRUE, error |-> "", message |-> message]
ClaimFailure(msg) == [success |-> FALSE, error |-> msg, message |-> ""]

\* What a returned claim leaves behind: the body of the response, the
\* request, and the rows its write removed.
ClaimReturned(req, result, replaced) ==
    [returned |-> TRUE, address |-> req.address, message |-> req.message,
     result |-> result, replaced |-> replaced]

NoClaimResponse ==
    [ClaimReturned(IdleClaim, ClaimFailure(""), {}) EXCEPT !.returned = FALSE]

\* No claim has arrived and no binding is stored.
NoClaims ==
    /\ address_map = {}
    /\ claims = [r \in Slots |-> IdleClaim]
    /\ claimResponse = NoClaimResponse

\* No getMinerPositions call has been made: the cache is empty.
PositionsIdle ==
    /\ liquidityPositionsCache = [data |-> Null, lastUpdated |-> 0]
    /\ poolTick = [p \in {PoolA, PoolB} |-> 15]
    /\ positionCalls = [c \in Slots |-> [pc |-> "idle", positionsByMiner |-> <<>>, fromCache |-> FALSE]]
    /\ positionsResult = Null

\* No request has been counted: the rate-limit maps are empty.
RateIdle ==
    /\ ipRequestCounts = [k \in {"10.0.0.1"} |-> Null]
    /\ addressRequestCounts = [k \in {"vote_5Alice", "ping_5Ab", "ping_5Ef"} |-> Null]
    /\ admitted = [k \in {"10.0.0.1", "vote_5Alice"} |-> <<>>]

\* The server is listening on a holder snapshot it has built; no scan is
\* in flight.
HoldersIdle ==
    /\ holdersCacheState = [dataIsNull |-> FALSE, lastUpdated |-> 0]
    /\ chainStakes = <<>>
    /\ holderScans = <<>>
    /\ scanResults = {}
    /\ server = [pc |-> "listening", exitCode |-> Null, listening |-> TRUE, holdersRefresh |-> TRUE, hotkeysRefresh |-> TRUE, holdersInitialized |-> "ok", hotkeysInitialized |-> "ok", refreshDue |-> 0]

\* No ping has been received.
PingIdle ==
    /\ VERSION = <<"1", ".", "2", ".", "1">>
    /\ pings = 0
    /\ pingCall = Null
    /\ pingResponse = Null

\* The server runs without the watcher.
WatcherIdle ==
    /\ watcher = [running |-> FALSE, exitCode |-> Null, child |-> Null, intentionalExit |-> FALSE, children |-> <<>>, restartTimers |-> <<>>, killTimers |-> <<>>, signals |-> 0, sinceSignal |-> Null]

\* The process has started and nothing has used its caches or its
\* rate-limit maps yet.
ServerIdle ==
    /\ PositionsIdle
    /\ RateIdle
    /\ HoldersIdle
    /\ PingIdle
    /\ WatcherIdle

InitStore ==
    /\ user_votes = [a \in Addresses |-> Null]
    /\ vote_change_history = <<>>
    /\ pool_info = {}
    /\ holdersCache = HolderSnapshot
    /\ accepted = [a \in Addresses |-> Null]

\* The database file outlives the process: the server may also start on a
\* store in which the voter's vote of an earlier run is present.
StoreWithVote ==
    /\ user_votes = [a \in Addresses |->
           IF a \in Voters
               THEN Some([pools |-> JSONstringify(NormalizePools(
                                       ParsePools(<<Entry(PoolA, "1")>>).pools, Num(1))),
                          block_number |-> StartBlock - BLOCK_WINDOW - 1])
           ELSE Null]
    /\ vote_change_history = <<>>
    /\ pool_info = {PoolA}
    /\ holdersCache = HolderSnapshot
    /\ accepted = [a \in Addresses |-> Null]

Init ==
    /\ now = 0
    /\ chainBlock = StartBlock
    /\ (InitStore \/ StoreWithVote)
    /\ reqs = [r \in Slots |-> IdleReq]
    /\ response = NoResponse
    /\ submitted = 0
    /\ ticks = 0
    /\ probe = Null
    /\ NoClaims
    /\ ServerIdle

(***************************************************************************)
(* POST /updateVotes from the arrival of the request to the read of the    *)
(* current vote: the message is parsed, the weights are normalized, the    *)
(* pools are validated against the factory, their rows are stored in       *)
(* pool_info, the block window and the holder snapshot are checked.  None  *)
(* of the awaits in between touches the votes or the change history.  The  *)
(* requests modelled are those that pass validateBasicInput, the rate      *)
(* limits and verifySignature.                                             *)
(***************************************************************************)
\* validateUniswapV3Pools(provider, normalizedPools)
areValidPools(normalizedPools) ==
    \A i \in DOMAIN normalizedPools :
        toLowerCase(normalizedPools[i].address) \in UniswapV3Pools

\* validateAndStorePoolInfo(db, provider, normalizedPools): every pool
\* without a row is fetched from the chain and stored.
PoolInfoStored(stored, normalizedPools) ==
    stored \cup {toLowerCase(normalizedPools[i].address) : i \in DOMAIN normalizedPools}

\* The window check with its lower end shut out.
BlockAndHolderErrorTight(blockNumber, currentChainBlock, address, holderList) ==
    IF blockNumber > currentChainBlock THEN "Invalid block number"
    ELSE IF blockNumber <= currentChainBlock - BLOCK_WINDOW THEN "Block number expired"
    ELSE IF ~(\E h \in holderList : h.address = address)
        THEN "Address does not hold alpha tokens"
    ELSE ""

\* The block window and the holder check: the error, or "" when both pass.
BlockAndHolderError(blockNumber, currentChainBlock, address, holderList) ==
    IF blockNumber > currentChainBlock THEN "Invalid block number"
    ELSE IF blockNumber < currentChainBlock - BLOCK_WINDOW THEN "Block number expired"
    ELSE IF ~(\E h \in holderList : h.address = address)
        THEN "Address does not hold alpha tokens"
    ELSE ""

Receive(r, address, poolEntries, blockNumber) ==
    /\ reqs[r].pc = "idle"
    /\ \A q \in Slots : q < r => reqs[q].pc # "idle"
    /\ submitted < MaxRequests
    /\ submitted' = submitted + 1
    /\ LET parsed == ParsePools(poolEntries)
           normalizedPools == NormalizePools(parsed.pools, parsed.totalWeight)
           req == [IdleReq EXCEPT !.address = address,
                                  !.poolEntries = poolEntries,
                                  !.blockNumber = blockNumber,
                                  !.arrivedAt = now,
                                  !.priorAccepted = accepted[address]]
           lateError == BlockAndHolderError(blockNumber, chainBlock, address,
                                            holdersCache)
       IN  IF parsed.error # ""
               THEN /\ response' = Returned(req, Failure(parsed.error), <<>>)
                    /\ UNCHANGED <<reqs, pool_info>>
           ELSE IF ~areValidPools(normalizedPools)
               THEN /\ response' = Returned(req, Failure("Invalid Uniswap V3 pools"), <<>>)
                    /\ UNCHANGED <<reqs, pool_info>>
           ELSE /\ pool_info' = PoolInfoStored(pool_info, normalizedPools)
                /\ IF lateError # ""
                       THEN /\ response' = Returned(req, Failure(lateError), <<>>)
                            /\ UNCHANGED reqs
                   ELSE /\ reqs' = [reqs EXCEPT ![r] =
                                [req EXCEPT !.pc = "readVote",
                                            !.normalizedPools = normalizedPools]]
                        /\ UNCHANGED response
    /\ UNCHANGED <<now, chainBlock, holdersCache, user_votes, vote_change_history,
                   ticks, accepted, probe>>
    /\ UNCHANGED claimVars
    /\ UNCHANGED serverVars

\* hasVoteChange = !oldPoolsJson || oldPoolsJson !== newPoolsJson
VoteChanged(oldPoolsJson, newPoolsJson) ==
    IsNull(oldPoolsJson) \/ Val(oldPoolsJson) # newPoolsJson

\* await db.get('SELECT pools FROM user_votes WHERE ss58Address = ?')
ReadVote(r) ==
    /\ reqs[r].pc = "readVote"
    /\ LET req == reqs[r]
           existingVote == user_votes[req.address]
           oldPoolsJson == IF IsNull(existingVote) THEN Null
                           ELSE Some(Val(existingVote).pools)
           newPoolsJson == JSONstringify(req.normalizedPools)
           hasVoteChange == VoteChanged(oldPoolsJson, newPoolsJson)
       IN  reqs' = [reqs EXCEPT ![r] =
                [req EXCEPT !.oldPoolsJson = oldPoolsJson,
                            !.hasVoteChange = hasVoteChange,
                            !.pc = IF hasVoteChange THEN "check1_vote"
                                   ELSE "upsert_get"]]
    /\ UNCHANGED <<now, chainBlock, holdersCache, user_votes, vote_change_history,
                   pool_info, response, submitted, ticks, accepted, probe>>
    /\ UNCHANGED claimVars
    /\ UNCHANGED serverVars

(***************************************************************************)
(* checkVoteCooldown, called before the upsert (pcs check1_vote and       *)
(* check1_hist) and again after it (pcs check2_vote and check2_hist).      *)
(* It awaits two queries.                                                  *)
(***************************************************************************)
\* await db.get('SELECT pools FROM user_votes WHERE ss58Address = ?')
CheckVote(r) ==
    /\ reqs[r].pc \in {"check1_vote", "check2_vote"}
    /\ LET req == reqs[r]
           first == req.pc = "check1_vote"
           existingVote == user_votes[req.address]
           newPools == JSONstringify(req.normalizedPools)
           noCooldown == IsNull(existingVote) \/ Val(existingVote).pools = newPools
       IN  IF noCooldown /\ ~first
               THEN /\ response' = Returned(req, Success, <<>>)
                    /\ reqs' = [reqs EXCEPT ![r] = IdleReq]
           ELSE /\ reqs' = [reqs EXCEPT ![r].pc =
                        IF noCooldown THEN "upsert_get"
                        ELSE IF first THEN "check1_hist"
                        ELSE "check2_hist"]
                /\ UNCHANGED response
    /\ UNCHANGED <<now, chainBlock, holdersCache, user_votes, vote_change_history,
                   pool_info, submitted, ticks, accepted, probe>>
    /\ UNCHANGED claimVars
    /\ UNCHANGED serverVars

\* await db.get('SELECT cooldown_until, change_count, change_timestamp FROM
\* vote_change_history WHERE ss58Address = ? ORDER BY change_timestamp DESC
\* LIMIT 1') and the decision.  After the second call a truthy duration
\* enters recordVoteChange, which reads the clock before its first await.
CheckHist(r) ==
    /\ reqs[r].pc \in {"check1_hist", "check2_hist"}
    /\ \E cooldownRecord \in LatestRecords(vote_change_history, reqs[r].address) :
        LET req == reqs[r]
            first == req.pc = "check1_hist"
            decision == CooldownDecision(cooldownRecord, now)
        IN  IF ~first /\ IsNull(decision.cooldownDuration)
                THEN /\ response' = Returned(req, Success, <<>>)
                     /\ reqs' = [reqs EXCEPT ![r] = IdleReq]
            ELSE /\ reqs' = [reqs EXCEPT ![r] =
                         IF first
                             THEN IF ~decision.allowed THEN [req EXCEPT !.pc = "status"]
                                  ELSE [req EXCEPT !.pc = "upsert_get",
                                                   !.cooldownDuration =
                                                       decision.cooldownDuration,
                                                   !.seenRecord = cooldownRecord]
                         ELSE [req EXCEPT !.pc = "record_get",
                                          !.recordDuration = decision.cooldownDuration,
                                          !.recordNow = now]]
                 /\ UNCHANGED response
    /\ UNCHANGED <<now, chainBlock, holdersCache, user_votes, vote_change_history,
                   pool_info, submitted, ticks, accepted, probe>>
    /\ UNCHANGED claimVars
    /\ UNCHANGED serverVars

\* The rejection: await checkVoteCooldownStatus(db, address), whose answer
\* shapes the error message.
Status(r) ==
    /\ reqs[r].pc = "status"
    /\ \E cooldownRecord \in LatestRecords(vote_change_history, reqs[r].address) :
        response' = Returned(reqs[r],
            IF CooldownActive(cooldownRecord, now)
                THEN CooldownFailure(Some(Val(cooldownRecord).cooldown_until))
            ELSE CooldownFailure(Null),
            <<>>)
    /\ reqs' = [reqs EXCEPT ![r] = IdleReq]
    /\ UNCHANGED <<now, chainBlock, holdersCache, user_votes, vote_change_history,
                   pool_info, submitted, ticks, accepted, probe>>
    /\ UNCHANGED claimVars
    /\ UNCHANGED serverVars

(***************************************************************************)
(* upsertUserVotes: a read and a write, awaited separately.                *)
(***************************************************************************)
\* The stale-block test refusing every block once a row exists.
BlockTooOldAny(existing, blockNumber) ==
    ~IsNull(existing)

\* The stale-block test letting the stored block itself through.
BlockTooOldStrict(existing, blockNumber) ==
    ~IsNull(existing) /\ blockNumber < Val(existing).block_number

\* if (existing && blockNumber <= (existing.block_number ?? 0)) throw
\* new Error('Block number too old')
BlockTooOld(existing, blockNumber) ==
    ~IsNull(existing) /\ blockNumber <= Val(existing).block_number

\* await db.get('SELECT id, block_number, pools FROM user_votes WHERE ...')
UpsertGet(r) ==
    /\ reqs[r].pc = "upsert_get"
    /\ LET req == reqs[r]
           existing == user_votes[req.address]
       IN  IF BlockTooOld(existing, req.blockNumber)
               THEN /\ response' = Returned(req, Failure("Database operation failed"), <<>>)
                    /\ reqs' = [reqs EXCEPT ![r] = IdleReq]
           ELSE /\ reqs' = [reqs EXCEPT ![r] =
                        [req EXCEPT !.pc = "upsert_run",
                                    !.existing = ~IsNull(existing)]]
                /\ UNCHANGED response
    /\ UNCHANGED <<now, chainBlock, holdersCache, user_votes, vote_change_history,
                   pool_info, submitted, ticks, accepted, probe>>
    /\ UNCHANGED claimVars
    /\ UNCHANGED serverVars

\* await db.run('INSERT INTO user_votes ...') when the read found no row (the
\* UNIQUE constraint on ss58Address fails it when a row has appeared since),
\* await db.run('UPDATE user_votes SET ... WHERE ss58Address = ?') otherwise.
UpsertRun(r) ==
    /\ reqs[r].pc = "upsert_run"
    /\ LET req == reqs[r]
           poolsJson == JSONstringify(req.normalizedPools)
           constraintFails == ~req.existing /\ ~IsNull(user_votes[req.address])
           recorded == req.hasVoteChange /\ ~IsNull(req.oldPoolsJson)
       IN  IF constraintFails
               THEN /\ response' = Returned(req, Failure("Database operation failed"), <<>>)
                    /\ reqs' = [reqs EXCEPT ![r] = IdleReq]
                    /\ UNCHANGED <<user_votes, accepted>>
           ELSE /\ user_votes' = [user_votes EXCEPT ![req.address] =
                        Some([pools |-> poolsJson, block_number |-> req.blockNumber])]
                /\ accepted' = [accepted EXCEPT ![req.address] =
                        IF recorded
                            THEN Some([at |-> now,
                                       duration |-> IF IsNull(req.cooldownDuration) THEN 0
                                                    ELSE Val(req.cooldownDuration)])
                        ELSE @]
                /\ IF recorded
                       THEN /\ reqs' = [reqs EXCEPT ![r].pc = "check2_vote"]
                            /\ UNCHANGED response
                   ELSE /\ response' = Returned(req, Success, <<>>)
                        /\ reqs' = [reqs EXCEPT ![r] = IdleReq]
    /\ UNCHANGED <<now, chainBlock, holdersCache, vote_change_history,
                   pool_info, submitted, ticks, probe>>
    /\ UNCHANGED claimVars
    /\ UNCHANGED serverVars

(***************************************************************************)
(* recordVoteChange: a read and an insert, awaited separately.             *)
(***************************************************************************)
\* await db.get('SELECT change_count, change_timestamp FROM
\* vote_change_history WHERE ss58Address = ? ORDER BY ... LIMIT 1')
RecordGet(r) ==
    /\ reqs[r].pc = "record_get"
    /\ \E currentRecord \in LatestRecords(vote_change_history, reqs[r].address) :
        reqs' = [reqs EXCEPT ![r] =
            [reqs[r] EXCEPT !.pc = "record_run",
                            !.changeCount =
                                RecordChangeCount(currentRecord, reqs[r].recordNow)]]
    /\ UNCHANGED <<now, chainBlock, holdersCache, user_votes, vote_change_history,
                   pool_info, response, submitted, ticks, accepted, probe>>
    /\ UNCHANGED claimVars
    /\ UNCHANGED serverVars

\* await db.run('INSERT INTO vote_change_history ...'), then the response.
RecordRun(r) ==
    /\ reqs[r].pc = "record_run"
    /\ LET req == reqs[r]
           row == ChangeRow(req.address, Val(req.oldPoolsJson),
                            JSONstringify(req.normalizedPools), req.recordNow,
                            Val(req.recordDuration), req.changeCount)
       IN  /\ vote_change_history' = Append(vote_change_history, row)
           /\ response' = Returned(req, Success, <<row>>)
           /\ reqs' = [reqs EXCEPT ![r] = IdleReq]
    /\ UNCHANGED <<now, chainBlock, holdersCache, user_votes,
                   pool_info, submitted, ticks, accepted, probe>>
    /\ UNCHANGED claimVars
    /\ UNCHANGED serverVars

(***************************************************************************)
(* The environment: time passes, the chain grows, the hourly timer runs    *)
(* cleanupExpiredCooldowns.                                                *)
(***************************************************************************)
Tick ==
    /\ ticks < MaxTicks
    /\ \E step \in TickSteps : now' = now + step
    /\ ticks' = ticks + 1
    /\ UNCHANGED <<chainBlock, holdersCache, user_votes, vote_change_history,
                   pool_info, reqs, response, submitted, accepted, probe>>
    /\ UNCHANGED claimVars
    /\ UNCHANGED serverVars

AdvanceChain ==
    /\ chainBlock < StartBlock + MaxChainAdvance
    /\ chainBlock' = chainBlock + 1
    /\ UNCHANGED <<now, holdersCache, user_votes, vote_change_history,
                   pool_info, reqs, response, submitted, ticks, accepted, probe>>
    /\ UNCHANGED claimVars
    /\ UNCHANGED serverVars

cleanupExpiredCooldowns ==
    /\ vote_change_history' = ExpiredRowsDeleted(vote_change_history, now)
    /\ vote_change_history' # vote_change_history
    /\ UNCHANGED <<now, chainBlock, holdersCache, user_votes,
                   pool_info, reqs, response, submitted, ticks, accepted, probe>>
    /\ UNCHANGED claimVars
    /\ UNCHANGED serverVars

Next ==
    \/ \E r \in Slots, address \in Voters, poolEntries \in VoteInputs,
          blockNumber \in BlockChoices(chainBlock) :
            Receive(r, address, poolEntries, blockNumber)
    \/ \E r \in Slots : ReadVote(r)
    \/ \E r \in Slots : CheckVote(r)
    \/ \E r \in Slots : CheckHist(r)
    \/ \E r \in Slots : Status(r)
    \/ \E r \in Slots : UpsertGet(r)
    \/ \E r \in Slots : UpsertRun(r)
    \/ \E r \in Slots : RecordGet(r)
    \/ \E r \in Slots : RecordRun(r)
    \/ Tick
    \/ AdvanceChain
    \/ cleanupExpiredCooldowns

Spec == Init /\ [][Next]_vars

(***************************************************************************)
(* The cooldown engine on its own: checkVoteCooldown past its two queries  *)
(* and recordVoteChange past its query, applied to a latest history row    *)
(* (or none) and a clock value drawn from the sets below.                  *)
(***************************************************************************)
\* Ages of the latest row when the engine runs: now - change_timestamp.
RecordAges ==
    {0, VOTE_CHANGE_COOLDOWN_MS, MAX_COOLDOWN_MS, COOLDOWN_RESET_PERIOD_MS - 1,
     COOLDOWN_RESET_PERIOD_MS, COOLDOWN_RESET_PERIOD_MS + 1}

\* The rows recordVoteChange can have written at time 0: change_count >= 1.
HistoryRows ==
    {ChangeRow("5Alice",
               JSONstringify(<<[address |-> PoolA, weight |-> Num(VOTE_WEIGHT_TOTAL)]>>),
               JSONstringify(<<[address |-> PoolB, weight |-> Num(VOTE_WEIGHT_TOTAL)]>>),
               0, cooldownDuration, changeCount) :
        cooldownDuration \in {VOTE_CHANGE_COOLDOWN_MS, MAX_COOLDOWN_MS},
        changeCount \in 1..MaxChangeCount}

NoDecision ==
    [allowed |-> FALSE, remainingMinutes |-> 0, effectiveChangeCount |-> 0,
     cooldownDuration |-> Null]

ProbeInputs ==
    {[stage |-> "input", cooldownRecord |-> cooldownRecord, t |-> t,
      decision |-> NoDecision, row |-> Null] :
        cooldownRecord \in {Null} \cup {Some(row) : row \in HistoryRows},
        t \in RecordAges}

InitCE ==
    /\ now = 0
    /\ chainBlock = StartBlock
    /\ InitStore
    /\ reqs = [r \in Slots |-> IdleReq]
    /\ response = NoResponse
    /\ submitted = 0
    /\ ticks = 0
    /\ probe \in {Some(p) : p \in ProbeInputs}
    /\ NoClaims
    /\ ServerIdle

\* checkVoteCooldown for a voter whose stored vote differs from newPools.
checkVoteCooldown ==
    /\ ~IsNull(probe)
    /\ Val(probe).stage = "input"
    /\ probe' = Some([Val(probe) EXCEPT
                        !.stage = "checked",
                        !.decision = CooldownDecision(Val(probe).cooldownRecord,
                                                      Val(probe).t)])
    /\ UNCHANGED <<now, chainBlock, holdersCache, user_votes, vote_change_history,
                   pool_info, reqs, response, submitted, ticks, accepted>>
    /\ UNCHANGED claimVars
    /\ UNCHANGED serverVars

\* recordVoteChange with the duration checkVoteCooldown returned.
recordVoteChange ==
    /\ ~IsNull(probe)
    /\ Val(probe).stage = "checked"
    /\ Val(probe).decision.allowed
    /\ LET p == Val(probe)
           row == ChangeRow("5Alice",
                      JSONstringify(<<[address |-> PoolB, weight |-> Num(VOTE_WEIGHT_TOTAL)]>>),
                      JSONstringify(<<[address |-> PoolA, weight |-> Num(VOTE_WEIGHT_TOTAL)]>>),
                      p.t, Val(p.decision.cooldownDuration),
                      RecordChangeCount(p.cooldownRecord, p.t))
       IN  probe' = Some([p EXCEPT !.stage = "recorded", !.row = Some(row)])
    /\ UNCHANGED <<now, chainBlock, holdersCache, user_votes, vote_change_history,
                   pool_info, reqs, response, submitted, ticks, accepted>>
    /\ UNCHANGED claimVars
    /\ UNCHANGED serverVars

NextCE ==
    \/ checkVoteCooldown
    \/ recordVoteChange

SpecCE == InitCE /\ [][NextCE]_vars

(***************************************************************************)
(* Properties of the cooldown engine (specification SpecCE).               *)
(***************************************************************************)
Max(a, b) == IF a >= b THEN a ELSE b
Clamp(x, lo, hi) == IF x < lo THEN lo ELSE IF x > hi THEN hi ELSE x

\* The evaluation in hand, once checkVoteCooldown has admitted the change.
Admitted ==
    /\ ~IsNull(probe)
    /\ Val(probe).stage # "input"
    /\ Val(probe).decision.allowed

\* The effective count as the specification words it: the latest row's count
\* when the row is at most 24 h old, 0 without a row or with an older one.
StatedEffectiveCount ==
    LET p == Val(probe)
    IN  IF ~IsNull(p.cooldownRecord)
           /\ p.t - Val(p.cooldownRecord).change_timestamp <= 24 * 60 * 60 * 1000
            THEN Val(p.cooldownRecord).change_count
        ELSE 0

\* clamp(base * 2^max(0, effective_count + 1 - threshold), base, cap) with
\* base 72 min and cap 8 h.
StatedCooldown(effectiveCount, threshold) ==
    Clamp((72 * 60 * 1000) * Pow(2, Max(0, effectiveCount + 1 - threshold)),
          72 * 60 * 1000, 8 * 60 * 60 * 1000)

C9_ResetWindow ==
    Admitted =>
        /\ Val(probe).decision.effectiveChangeCount = StatedEffectiveCount
        /\ Val(probe).stage = "recorded" =>
              Val(Val(probe).row).change_count =
                  IF ~IsNull(Val(probe).cooldownRecord)
                     /\ Val(probe).t - Val(Val(probe).cooldownRecord).change_timestamp
                            <= 24 * 60 * 60 * 1000
                      THEN Val(Val(probe).cooldownRecord).change_count + 1
                  ELSE 1

\* C9, the case: a latest row exactly 24 h old still counts, in the decision
\* and in the row recorded.
C9_BoundaryCounts ==
    /\ Admitted
    /\ Val(probe).stage = "recorded"
    /\ ~IsNull(Val(probe).cooldownRecord)
    /\ Val(probe).t - Val(Val(probe).cooldownRecord).change_timestamp
           = 24 * 60 * 60 * 1000
    /\ Val(probe).decision.effectiveChangeCount
           = Val(Val(probe).cooldownRecord).change_count
    /\ Val(Val(probe).row).change_count
           = Val(Val(probe).cooldownRecord).change_count + 1

(***************************************************************************)
(* One submission of a voter without a stored vote, over a wide set of     *)
(* pool lists: parsing, normalization and the stored row.                  *)
(***************************************************************************)
EntryAddresses ==
    {PoolA, PoolAUpper, PoolB, PoolE, <<"0", "x", "a">>, <<>>}
WeightStrings ==
    {"1", "2", "3", "100000", "0", "-1", "Infinity", "abc", ""}
PoolEntrySet ==
    {Entry(poolAddress, weightStr) :
        poolAddress \in EntryAddresses, weightStr \in WeightStrings}

\* n entries with weight weightStr each, on the first n factory pools.
EqualEntries(n, weightStr) ==
    [i \in 1..n |-> Entry(Address(FactoryPoolChars[i]), weightStr)]

FirstVoteInputs ==
    {<<e>> : e \in PoolEntrySet}
    \cup {<<e1, e2>> : e1 \in PoolEntrySet, e2 \in PoolEntrySet}
    \cup {EqualEntries(n, "1") : n \in 3..(MAX_POOLS_PER_REQUEST + 1)}
    \cup {EqualEntries(n, "3") : n \in 3..MAX_POOLS_PER_REQUEST}
    \cup {<<Entry(PoolA, "39994"), Entry(PoolB, "2"), Entry(PoolC, "3"),
            Entry(PoolD, "1")>>}

NextFirstVote ==
    \/ \E poolEntries \in FirstVoteInputs, blockNumber \in BlockChoices(chainBlock) :
          /\ submitted = 0
          /\ Receive(1, "5Alice", poolEntries, blockNumber)
    \/ ReadVote(1)
    \/ CheckVote(1)
    \/ UpsertGet(1)
    \/ UpsertRun(1)

SpecFirstVote == Init /\ [][NextFirstVote]_vars

(***************************************************************************)
(* Properties of the stored vote (specification SpecFirstVote).            *)
(***************************************************************************)
\* The request that returned last was answered with success.
Succeeded == response.returned /\ response.result.success

\* The pools column of the row stored for the voter of the last response.
StoredPools == Val(user_votes[response.address]).pools

RECURSIVE StoredWeightSum(_, _)
\* The sum of the weights from entry i on.
StoredWeightSum(pools, i) ==
    IF i > Len(pools) THEN 0
    ELSE pools[i].weight.val + StoredWeightSum(pools, i + 1)

\* C3: after a successful POST /updateVotes the vote row stored for the
\* voter has at most 10 pool entries and its weights are numbers that sum to
\* exactly 10000, for every accepted input of positive weights.
C3_StoredVoteSumsToTotal ==
    Succeeded =>
        /\ Len(StoredPools) <= 10
        /\ \A i \in DOMAIN StoredPools : StoredPools[i].weight.kind = "finite"
        /\ StoredWeightSum(StoredPools, 1) = 10000

\* C4: in every vote stored by POST /updateVotes each pool address is
\* lowercase and occurs at most once.
C4_StoredAddressesLowercaseUnique ==
    Succeeded =>
        /\ \A i \in DOMAIN StoredPools :
              toLowerCase(StoredPools[i].address) = StoredPools[i].address
        /\ \A i, j \in DOMAIN StoredPools :
              i # j => StoredPools[i].address # StoredPools[j].address

\* C5: for every accepted list of at most 10 positive (finite) input
\* weights, every weight of the stored vote is a positive integer, the
\* adjusted last one included.
C5_StoredWeightsPositive ==
    (/\ Succeeded
     /\ \A i \in DOMAIN response.poolEntries :
           Number(response.poolEntries[i].weightStr).kind = "finite")
        => \A i \in DOMAIN StoredPools :
              /\ StoredPools[i].weight.kind = "finite"
              /\ StoredPools[i].weight.val > 0

(***************************************************************************)
(* Properties of the handler under concurrent requests (specification      *)
(* Spec).                                                                  *)
(***************************************************************************)
\* The request that returned last had reached the comparison with the
\* stored vote and its normalized pools differed from an existing vote.
ChangedExistingVote ==
    /\ response.returned
    /\ response.hasVoteChange
    /\ ~IsNull(response.oldPoolsJson)

\* C1: once a vote change of a voter with a stored vote has been accepted
\* at time T1 with cooldown duration d, a later submission of that voter
\* whose normalized pools differ from the stored vote and that arrives
\* before T1 + d is not accepted.
C1_CooldownEnforced ==
    (/\ ChangedExistingVote
     /\ ~IsNull(response.priorAccepted)
     /\ response.arrivedAt
            < Val(response.priorAccepted).at + Val(response.priorAccepted).duration)
        => ~response.result.success

\* C2: an accepted submission whose normalized pools differ from the
\* voter's previously stored vote appends exactly one VC row, with
\* cooldown_until = change_timestamp + the duration the engine returned and
\* change_count = latest.change_count + 1 when the latest row is at most
\* 24 h old, else 1.
C2_OneRowPerAcceptedChange ==
    (ChangedExistingVote /\ response.result.success)
        => /\ Len(response.appended) = 1
           /\ LET row == response.appended[1]
                  latest == response.seenRecord
              IN  /\ ~IsNull(response.cooldownDuration)
                  /\ row.cooldown_until
                         = row.change_timestamp + Val(response.cooldownDuration)
                  /\ row.change_count =
                         IF ~IsNull(latest)
                            /\ row.change_timestamp - Val(latest).change_timestamp
                                   <= 24 * 60 * 60 * 1000
                             THEN Val(latest).change_count + 1
                         ELSE 1

\* C7: a voter's second accepted change, made after the cooldown of the
\* first change has expired and within 24 h of it, leaves a new VC row with
\* change_count = 2 and a cooldown of 144 minutes.
C7_SecondChangeDoubles ==
    (/\ ChangedExistingVote
     /\ response.result.success
     /\ ~IsNull(response.priorAccepted)
     /\ Val(response.priorAccepted).duration > 0
     /\ response.arrivedAt
            >= Val(response.priorAccepted).at + Val(response.priorAccepted).duration
     /\ response.arrivedAt - Val(response.priorAccepted).at <= 24 * 60 * 60 * 1000)
        => /\ Len(response.appended) = 1
           /\ response.appended[1].change_count = 2
           /\ response.appended[1].cooldown_until
                  - response.appended[1].change_timestamp = 144 * 60 * 1000

\* C10: for any voter at most one POST /updateVotes request is inside the
\* section from the read of the current vote to the recording of the change.
C10_SectionSerialized ==
    \A r1, r2 \in Slots :
        (/\ r1 # r2
         /\ reqs[r1].pc \in SectionPcs
         /\ reqs[r2].pc \in SectionPcs)
            => reqs[r1].address # reqs[r2].address

(***************************************************************************)
(* Requests one after the other: a single handler invocation at a time,    *)
(* from any address, on a store that is empty, holds a vote, or is the one *)
(* two racing requests of the voter leave behind (a vote and a            *)
(* vote_change_history row whose cooldown is running).  The clock stands   *)
(* still, so that cooldown stays active.                                   *)
(***************************************************************************)
VoteOf(poolAddress, blockNumber) ==
    Some([pools |-> JSONstringify(NormalizePools(
                        ParsePools(<<Entry(poolAddress, "1")>>).pools, Num(1))),
          block_number |-> blockNumber])

\* Reached under Spec from StoreWithVote: [B] at block 10 passes both checks
\* and is stored, a concurrent [A] at block 10 that compared itself with the
\* old vote overwrites it, and the second checkVoteCooldown of the first
\* request then sees a vote that differs from its own and records the change.
StoreAfterRace ==
    /\ user_votes = [a \in Addresses |->
           IF a \in Voters THEN VoteOf(PoolA, StartBlock - BLOCK_WINDOW) ELSE Null]
    /\ vote_change_history =
           <<ChangeRow("5Alice", Val(VoteOf(PoolA, 0)).pools, Val(VoteOf(PoolB, 0)).pools,
                       0, VOTE_CHANGE_COOLDOWN_MS, 1)>>
    /\ pool_info = {PoolA, PoolB}
    /\ holdersCache = HolderSnapshot
    /\ accepted = [a \in Addresses |->
           IF a \in Voters THEN Some([at |-> 0, duration |-> VOTE_CHANGE_COOLDOWN_MS])
           ELSE Null]

InitSequential ==
    /\ now = 0
    /\ chainBlock = StartBlock
    /\ (InitStore \/ StoreWithVote \/ StoreAfterRace)
    /\ reqs = [r \in Slots |-> IdleReq]
    /\ response = NoResponse
    /\ submitted = 0
    /\ ticks = 0
    /\ probe = Null
    /\ NoClaims
    /\ ServerIdle

\* A Substrate signature, by the address whose key made it and the message
\* it was made over; nobody makes one for a key they do not hold.
SignatureOf(signer, message) == [signer |-> signer, message |-> message]

\* verifySignature looking at the signer only.
verifySignatureAnyMessage(message, signature, address) ==
    signature.signer = address

\* signatureVerify(message, signature, address).isValid and the recovered
\* address is the submitted one.
verifySignature(message, signature, address) ==
    signature.signer = address /\ signature.message = message

\* body.message of POST /updateVotes: `${poolsStr}|${blockNumber}`.
VoteMessage(poolEntries, blockNumber) == <<poolEntries, blockNumber>>

\* Signatures a request may come with: the voter's or another address's,
\* over the submitted message or over one with another block number.
SignatureChoices(poolEntries, blockNumber) ==
    {SignatureOf(signer, VoteMessage(poolEntries, b)) :
        signer \in Addresses, b \in {blockNumber, blockNumber + 1}}

\* POST /updateVotes from its first line: the signature check, and behind
\* it the rest of the handler.
updateVotes(r, address, poolEntries, blockNumber, signature) ==
    IF verifySignature(VoteMessage(poolEntries, blockNumber), signature, address)
        THEN Receive(r, address, poolEntries, blockNumber)
    ELSE /\ reqs[r].pc = "idle"
         /\ submitted < MaxRequests
         /\ submitted' = submitted + 1
         /\ response' = Returned([IdleReq EXCEPT !.address = address,
                                                 !.arrivedAt = now],
                                 Failure("Authentication failed"), <<>>)
         /\ UNCHANGED <<now, chainBlock, holdersCache, user_votes,
                        vote_change_history, pool_info, reqs, ticks, accepted,
                        probe, address_map, claims, claimResponse>>
         /\ UNCHANGED serverVars

NextSequential ==
    \/ \E address \in Addresses, poolEntries \in VoteInputs,
          blockNumber \in BlockChoices(chainBlock) :
        \E signature \in SignatureChoices(poolEntries, blockNumber) :
            submitted < MaxSequential
            /\ updateVotes(1, address, poolEntries, blockNumber, signature)
    \/ ReadVote(1)
    \/ CheckVote(1)
    \/ CheckHist(1)
    \/ Status(1)
    \/ UpsertGet(1)
    \/ UpsertRun(1)
    \/ AdvanceChain

SpecSequential == InitSequential /\ [][NextSequential]_vars

(***************************************************************************)
(* Properties of the checks that precede the read of the current vote      *)
(* (specification SpecSequential).                                         *)
(***************************************************************************)
\* The step is the arrival of a request (Receive).
Arrival == submitted' = submitted + 1

\* The arriving request was answered at once with an error.
RejectedOnArrival == Arrival /\ reqs' = reqs

\* C11: a vote is stored only for an address that is in the holder snapshot
\* with an alpha balance > 0.
C11_VotesOnlyFromAlphaHolders ==
    \A a \in Addresses :
        ~IsNull(user_votes[a]) =>
            \E h \in holdersCache : h.address = a /\ h.alphaBalanceRaw > 0

\* C12: a request rejected because the voter does not hold alpha tokens
\* writes no row to any relation of the store.
C12_HolderRejectionWritesNothing ==
    [][(RejectedOnArrival
        /\ response'.result.error = "Address does not hold alpha tokens")
            => UNCHANGED <<user_votes, vote_change_history, pool_info,
                           address_map>>]_vars

\* C13: a submitted block b is accepted only if C - 10 <= b <= C for the
\* chain block C read during the request; b = C and b = C - 10 pass the
\* check; b outside the window is rejected and writes no vote or VC row.
C13_BlockWindow ==
    [][Arrival =>
          /\ \A r \in Slots :
                reqs'[r] # reqs[r] =>
                    /\ reqs'[r].blockNumber >= chainBlock - 10
                    /\ reqs'[r].blockNumber <= chainBlock
          /\ RejectedOnArrival =>
                /\ response'.result.error = "Invalid block number"
                      => response'.blockNumber > chainBlock
                /\ response'.result.error = "Block number expired"
                      => response'.blockNumber < chainBlock - 10
                /\ UNCHANGED <<user_votes, vote_change_history>>]_vars

\* C13, the case: a vote submitted with b = C - 10 has been stored.
C13_LowerBoundaryStored ==
    /\ Succeeded
    /\ response.blockNumber = chainBlock - 10
    /\ Val(user_votes[response.address]).block_number = chainBlock - 10

(***************************************************************************)
(* Properties of the upsert of a vote (specification SpecSequential).      *)
(***************************************************************************)
\* Request r is past the arrival checks and its normalized pools are the
\* ones stored for its voter, under a block older than the submitted one.
SamePoolsNewerBlock(r) ==
    /\ reqs[r].pc \in {"readVote", "upsert_get", "upsert_run"}
    /\ reqs[r].pc # "readVote" => ~reqs[r].hasVoteChange
    /\ ~IsNull(user_votes[reqs[r].address])
    /\ Val(user_votes[reqs[r].address]).pools = JSONstringify(reqs[r].normalizedPools)
    /\ reqs[r].blockNumber > Val(user_votes[reqs[r].address]).block_number

\* A vote_change_history row of the voter whose cooldown is running.
CooldownRunning(address) ==
    \E i \in DOMAIN vote_change_history :
        /\ vote_change_history[i].ss58Address = address
        /\ vote_change_history[i].cooldown_until > now

\* C14: a submission of the normalized pools already stored for the voter,
\* with a block newer than the stored one, goes from the read of the vote
\* straight to the upsert (no cooldown check), passes the stale-block test
\* and succeeds; the stored pools stay as they were, the stored block
\* becomes the submitted one, and no VC row is written.
C14_SamePoolsNewerBlockAccepted ==
    [][\A r \in Slots :
          (SamePoolsNewerBlock(r) /\ reqs'[r] # reqs[r]) =>
              /\ vote_change_history' = vote_change_history
              /\ reqs[r].pc = "readVote" =>
                    /\ reqs'[r].pc = "upsert_get"
                    /\ UNCHANGED user_votes
              /\ reqs[r].pc = "upsert_get" =>
                    /\ reqs'[r].pc = "upsert_run"
                    /\ UNCHANGED user_votes
              /\ reqs[r].pc = "upsert_run" =>
                    /\ response'.result = Success
                    /\ response'.appended = <<>>
                    /\ user_votes' = [user_votes EXCEPT ![reqs[r].address] =
                           Some([pools |-> Val(user_votes[reqs[r].address]).pools,
                                 block_number |-> reqs[r].blockNumber])]]_vars

\* C14, the case: such a submission has succeeded while a cooldown of the
\* voter is running.
C14_AcceptedDuringCooldown ==
    /\ Succeeded
    /\ ~response.hasVoteChange
    /\ ~IsNull(response.oldPoolsJson)
    /\ CooldownRunning(response.address)
    /\ Val(user_votes[response.address]).block_number = response.blockNumber
    /\ Val(user_votes[response.address]).pools = Val(response.oldPoolsJson)

\* Request r is inside upsertUserVotes and the row of its voter carries a
\* block_number >= the submitted one.
StoredBlockNotOlder(r) ==
    /\ ~IsNull(user_votes[reqs[r].address])
    /\ Val(user_votes[reqs[r].address]).block_number >= reqs[r].blockNumber

\* C15: upsertUserVotes rejects (stale block), leaving the row unchanged,
\* exactly when a row of the voter exists with stored block_number >= the
\* submitted block_number; in every other case the row becomes the
\* submitted pools and block_number.
C15_StaleBlockExactly ==
    [][\A r \in Slots :
          (reqs[r].pc \in {"upsert_get", "upsert_run"} /\ reqs'[r] # reqs[r]) =>
              /\ reqs[r].pc = "upsert_get" =>
                    /\ UNCHANGED user_votes
                    /\ StoredBlockNotOlder(r) <=>
                           (/\ reqs'[r].pc = "idle"
                            /\ response'.result = Failure("Database operation failed"))
              /\ reqs[r].pc = "upsert_run" =>
                    IF StoredBlockNotOlder(r)
                        THEN /\ UNCHANGED user_votes
                             /\ response'.result = Failure("Database operation failed")
                    ELSE user_votes' = [user_votes EXCEPT ![reqs[r].address] =
                             Some([pools |-> JSONstringify(reqs[r].normalizedPools),
                                   block_number |-> reqs[r].blockNumber])]]_vars

\* Request r repeats what is stored: the row of its voter holds the
\* submitted pools and the submitted block_number.
RetryOfStored(r) ==
    /\ reqs[r].pc # "idle"
    /\ ~IsNull(user_votes[reqs[r].address])
    /\ Val(user_votes[reqs[r].address]) =
           [pools |-> JSONstringify(reqs[r].normalizedPools),
            block_number |-> reqs[r].blockNumber]

\* C16: a POST /updateVotes request that repeats the (voter, block_number,
\* pools) of the stored vote leaves the votes relation and the vote-change
\* history as they were: none of its steps changes them, and it never
\* reaches a statement that writes a vote row or a VC row.
C16_RetryIdempotent ==
    [][\A r \in Slots :
          /\ (RetryOfStored(r) /\ reqs'[r] # reqs[r]) =>
                /\ UNCHANGED <<user_votes, vote_change_history>>
                /\ reqs'[r].pc \notin {"upsert_run", "record_get", "record_run"}
          /\ (Arrival /\ reqs'[r] # reqs[r]) =>
                UNCHANGED <<user_votes, vote_change_history>>]_vars

\* C16, the case: the second request of a run repeated the vote the first
\* one stored and has been answered (with the stale-block failure); the
\* row is the one it submitted.
C16_RetryAnswered ==
    /\ submitted = 2
    /\ response.returned
    /\ ~response.hasVoteChange
    /\ ~IsNull(response.oldPoolsJson)
    /\ response.result = Failure("Database operation failed")
    /\ vote_change_history = <<>>
    /\ Val(user_votes[response.address]) =
           [pools |-> Val(response.oldPoolsJson),
            block_number |-> response.blockNumber]

(***************************************************************************)
(* The signature check of POST /updateVotes (specification                 *)
(* SpecSequential).                                                        *)
(***************************************************************************)
\* The step is the arrival of a request of the address whose signature is
\* not the address's signature over the submitted message.
BadSignatureArrival(address) ==
    /\ Arrival
    /\ \E poolEntries \in VoteInputs, blockNumber \in BlockChoices(chainBlock) :
        \E signature \in SignatureChoices(poolEntries, blockNumber) :
            /\ signature # SignatureOf(address, VoteMessage(poolEntries, blockNumber))
            /\ updateVotes(1, address, poolEntries, blockNumber, signature)

\* C17: a POST /updateVotes request whose signature is not V's signature
\* over the submitted message ends at the signature check, before any write
\* to the store; a vote row or VC row of V changes only in the write step
\* of a request of V that passed the check.
C17_NoWriteWithoutSignature ==
    [][\A address \in Addresses :
          /\ BadSignatureArrival(address) =>
                /\ reqs' = reqs
                /\ response'.result = Failure("Authentication failed")
                /\ UNCHANGED <<user_votes, vote_change_history, pool_info>>
          /\ (\/ user_votes'[address] # user_votes[address]
              \/ RowsOf(vote_change_history', address)
                     # RowsOf(vote_change_history, address)) =>
                \E r \in Slots :
                    /\ reqs[r].address = address
                    /\ reqs[r].pc \in {"upsert_run", "record_run"}]_vars

\* C17, the case: a request with a bad signature for a voter without a
\* vote has been answered and the voter still has no vote.
C17_ForgedRequestRejected ==
    /\ response.returned
    /\ response.result = Failure("Authentication failed")
    /\ response.address \in Voters
    /\ IsNull(user_votes[response.address])
    /\ vote_change_history = <<>>

(***************************************************************************)
(* POST /claimAddress: a hotkey of the subnet binds an Ethereum address.   *)
(* Hotkeys and Ethereum addresses are strings, modelled as tuples of       *)
(* characters.  The handler awaits fetchCurrentBittensorBlock,             *)
(* getAddressMapping and setAddressMapping; each is one action.            *)
(***************************************************************************)
HotkeyA == <<"5", "A", "b">>
HotkeyALower == <<"5", "a", "b">>
HotkeyC == <<"5", "C", "d">>
HotkeyE == <<"5", "E", "f">>

\* getSubnetHotkeys(): the registered hotkeys.
SubnetHotkeys == {HotkeyA, HotkeyC}

\* The characters of the Ethereum keys of the model; the address of key c
\* is Address(c), which ethers prints in its checksum form.
EthKeyChars == {"a", "b"}
ChecksumAddress(c) == Address(IF c = "a" THEN "A" ELSE "B")

\* An Ethereum signature, by the address of the key that made it and the
\* message it was made over.
EthSignatureOf(signer, message) == [signer |-> signer, message |-> message]

\* ethers' verifyMessage: the address of the signing key; over another
\* message the recovery yields an address nobody holds.
verifyMessage(message, signature) ==
    IF signature.message = message THEN signature.signer ELSE Address("0")

verifyEthereumSignature(message, signature, address) ==
    toLowerCase(verifyMessage(message, signature)) = toLowerCase(address)

\* ethSigner as the client wrote it.
ethSignerAsSubmitted(ethSigner) == ethSigner

\* const ethSignerLower = ethSigner.toLowerCase()
ethSignerLower(ethSigner) == toLowerCase(ethSigner)

\* SELECT * FROM address_map WHERE ss58Address = ? AND ethereumAddress = ?
getAddressMapping(rows, ss58, eth) ==
    LET found == {row \in rows : row.ss58Address = ss58 /\ row.ethereumAddress = eth}
    IN  IF found = {} THEN Null ELSE Some(CHOOSE row \in found : TRUE)

\* The rows an INSERT OR REPLACE of (ss58, eth) deletes: those that collide
\* with it on one of the two UNIQUE columns.
ReplacedRows(rows, ss58, eth) ==
    {row \in rows : row.ss58Address = ss58 \/ row.ethereumAddress = eth}

\* An upsert on the hotkey column alone.
setAddressMappingByVoter(rows, ss58, eth, t) ==
    {row \in rows : row.ss58Address # ss58}
        \cup {[ss58Address |-> ss58, ethereumAddress |-> eth, updated_at |-> t]}

\* INSERT OR REPLACE INTO address_map (ss58Address, ethereumAddress,
\* updated_at) VALUES (?, ?, CURRENT_TIMESTAMP)
setAddressMapping(rows, ss58, eth, t) ==
    (rows \ ReplacedRows(rows, ss58, eth))
        \cup {[ss58Address |-> ss58, ethereumAddress |-> eth, updated_at |-> t]}

\* The request a client builds from these choices: the Ethereum key signs
\* ethSigned, the key of `signer` signs the whole message.
ClaimBody(f) ==
    LET message == SubSeq(<<EthSignatureOf(f.ethKey, f.ethSigned), f.ethAddr,
                            f.hotkeyPayload, f.blockNumStr, f.ethSigner>>,
                          1, f.fields)
    IN  [address |-> f.address,
         signature |-> SignatureOf(f.signer, message),
         message |-> message]

\* The claim of a hotkey and the holder of key c, both signing what the
\* protocol asks them to sign.
HonestClaim(hotkey, c, blockNumStr) ==
    [address |-> hotkey, signer |-> hotkey, fields |-> 5,
     ethKey |-> ChecksumAddress(c),
     ethSigned |-> <<Address(c), hotkey, blockNumStr>>,
     ethAddr |-> Address(c), hotkeyPayload |-> hotkey,
     blockNumStr |-> blockNumStr, ethSigner |-> Address(c)]

\* The same claim with one thing different.
VariedClaims ==
    LET h == HonestClaim(HotkeyA, "a", "20")
    IN  {[h EXCEPT !.signer = HotkeyC],
         [h EXCEPT !.fields = 4],
         [h EXCEPT !.ethAddr = Address("b")],
         [h EXCEPT !.ethAddr = Address("A"),
                   !.ethSigned = <<Address("A"), HotkeyA, "20">>],
         [h EXCEPT !.ethSigner = Address("A")],
         [h EXCEPT !.hotkeyPayload = HotkeyALower,
                   !.ethSigned = <<Address("a"), HotkeyALower, "20">>],
         [h EXCEPT !.hotkeyPayload = HotkeyC,
                   !.ethSigned = <<Address("a"), HotkeyC, "20">>],
         [h EXCEPT !.ethAddr = <<"0", "x", "a">>, !.ethSigner = <<"0", "x", "a">>],
         [h EXCEPT !.blockNumStr = "abc", !.ethSigned = <<Address("a"), HotkeyA, "abc">>],
         [h EXCEPT !.blockNumStr = "9", !.ethSigned = <<Address("a"), HotkeyA, "9">>],
         [h EXCEPT !.blockNumStr = "21", !.ethSigned = <<Address("a"), HotkeyA, "21">>],
         [h EXCEPT !.ethKey = ChecksumAddress("b")],
         [h EXCEPT !.ethSigned = <<Address("a"), HotkeyA, "10">>],
         HonestClaim(HotkeyE, "a", "20")}

\* The bodies submitted to POST /claimAddress.
ClaimInputs ==
    {ClaimBody(HonestClaim(hotkey, c, blockNumStr)) :
        hotkey \in SubnetHotkeys, c \in EthKeyChars, blockNumStr \in {"10", "20"}}
    \cup {ClaimBody(f) : f \in VariedClaims}

\* The fields of message.split('|').
EthSigOf(message) == message[1]
EthAddrPayloadOf(message) == message[2]
HotkeyPayloadOf(message) == message[3]
BlockNumStrOf(message) == message[4]
EthSignerOf(message) == message[5]

\* The checks before the first await: the error, or "" when all pass.
ClaimArrivalError(body, subnetHotkeys) ==
    IF body.address \notin subnetHotkeys THEN "Invalid hotkey address"
    ELSE IF ~verifySignature(body.message, body.signature, body.address)
        THEN "Authentication failed"
    ELSE IF Len(body.message) # 5 THEN "Invalid message format"
    ELSE IF toLowerCase(EthAddrPayloadOf(body.message))
                # toLowerCase(EthSignerOf(body.message))
        THEN "Address mismatch"
    ELSE IF toLowerCase(HotkeyPayloadOf(body.message)) # toLowerCase(body.address)
        THEN "Address mismatch"
    ELSE IF ~AddressFormatOk(EthSignerOf(body.message))
        THEN "Invalid Ethereum address format"
    ELSE IF IsNaN(Number(BlockNumStrOf(body.message))) THEN "Invalid block number"
    ELSE ""

\* The checks after fetchCurrentBittensorBlock: the error, or "".
ClaimBlockError(req, currentChainBlock, subnetHotkeys) ==
    LET submittedBlockNumber == Number(BlockNumStrOf(req.message)).val
        ethMessage == <<EthAddrPayloadOf(req.message), HotkeyPayloadOf(req.message),
                        BlockNumStrOf(req.message)>>
    IN  IF submittedBlockNumber > currentChainBlock THEN "Invalid block number"
        ELSE IF submittedBlockNumber < currentChainBlock - BLOCK_WINDOW
            THEN "Block number expired"
        ELSE IF ~verifyEthereumSignature(ethMessage, EthSigOf(req.message),
                                         EthSignerOf(req.message))
            THEN "Authentication failed"
        ELSE IF req.address \notin subnetHotkeys
            THEN "Hotkey must be a registered miner in the subnet"
        ELSE ""

\* The handler up to await fetchCurrentBittensorBlock().
claimAddress(r, body) ==
    /\ claims[r].pc = "idle"
    /\ \A q \in Slots : q < r => claims[q].pc # "idle"
    /\ submitted < MaxClaims
    /\ submitted' = submitted + 1
    /\ LET req == [IdleClaim EXCEPT !.address = body.address,
                                    !.signature = Some(body.signature),
                                    !.message = body.message]
           error == ClaimArrivalError(body, SubnetHotkeys)
       IN  IF error # ""
               THEN /\ claimResponse' = ClaimReturned(req, ClaimFailure(error), {})
                    /\ UNCHANGED claims
           ELSE /\ claims' = [claims EXCEPT ![r] = [req EXCEPT !.pc = "fetchBlock"]]
                /\ UNCHANGED claimResponse
    /\ UNCHANGED <<now, chainBlock, holdersCache, user_votes, vote_change_history,
                   pool_info, reqs, response, ticks, accepted, probe, address_map>>
    /\ UNCHANGED serverVars

\* await fetchCurrentBittensorBlock(), then the window, the Ethereum
\* signature and the roster once more, up to await getAddressMapping.
ClaimFetchBlock(r) ==
    /\ claims[r].pc = "fetchBlock"
    /\ LET req == [claims[r] EXCEPT !.currentChainBlock = chainBlock]
           error == ClaimBlockError(req, chainBlock, SubnetHotkeys)
       IN  IF error # ""
               THEN /\ claimResponse' = ClaimReturned(req, ClaimFailure(error), {})
                    /\ claims' = [claims EXCEPT ![r] = IdleClaim]
           ELSE /\ claims' = [claims EXCEPT ![r] = [req EXCEPT !.pc = "getMapping"]]
                /\ UNCHANGED claimResponse
    /\ UNCHANGED <<now, chainBlock, holdersCache, user_votes, vote_change_history,
                   pool_info, reqs, response, submitted, ticks, accepted, probe,
                   address_map>>
    /\ UNCHANGED serverVars

\* await getAddressMapping(db, hotkey, ethSignerLower), up to
\* await setAddressMapping.
ClaimGetMapping(r) ==
    /\ claims[r].pc = "getMapping"
    /\ LET req == claims[r]
           hotkey == req.address
           eth == ethSignerLower(EthSignerOf(req.message))
           existing == getAddressMapping(address_map, hotkey, eth)
       IN  IF /\ ~IsNull(existing)
              /\ Val(existing).ss58Address = hotkey
              /\ Val(existing).ethereumAddress = eth
               THEN /\ claimResponse' = ClaimReturned(req,
                            ClaimSuccess("Mapping already exists"), {})
                    /\ claims' = [claims EXCEPT ![r] = IdleClaim]
           ELSE /\ claims' = [claims EXCEPT ![r] =
                        [req EXCEPT !.pc = "setMapping", !.existing = existing]]
                /\ UNCHANGED claimResponse
    /\ UNCHANGED <<now, chainBlock, holdersCache, user_votes, vote_change_history,
                   pool_info, reqs, response, submitted, ticks, accepted, probe,
                   address_map>>
    /\ UNCHANGED serverVars

\* await setAddressMapping(db, hotkey, ethSignerLower), then the response.
ClaimSetMapping(r) ==
    /\ claims[r].pc = "setMapping"
    /\ LET req == claims[r]
           hotkey == req.address
           eth == ethSignerLower(EthSignerOf(req.message))
       IN  /\ address_map' = setAddressMapping(address_map, hotkey, eth, now)
           /\ claimResponse' = ClaimReturned(req,
                  ClaimSuccess(IF ~IsNull(req.existing) THEN "Address mapping updated"
                               ELSE "Address mapping created"),
                  address_map \ address_map')
           /\ claims' = [claims EXCEPT ![r] = IdleClaim]
    /\ UNCHANGED <<now, chainBlock, holdersCache, user_votes, vote_change_history,
                   pool_info, reqs, response, submitted, ticks, accepted, probe>>
    /\ UNCHANGED serverVars

\* Bindings written by an earlier run of the server.
StoredBindings ==
    {[ss58Address |-> HotkeyA, ethereumAddress |-> Address("a"), updated_at |-> 0],
     [ss58Address |-> HotkeyC, ethereumAddress |-> Address("b"), updated_at |-> 0]}

InitClaim ==
    /\ now = 0
    /\ chainBlock = StartBlock
    /\ InitStore
    /\ reqs = [r \in Slots |-> IdleReq]
    /\ response = NoResponse
    /\ submitted = 0
    /\ ticks = 0
    /\ probe = Null
    /\ address_map \in {{}, StoredBindings}
    /\ claims = [r \in Slots |-> IdleClaim]
    /\ claimResponse = NoClaimResponse
    /\ ServerIdle

NextClaim ==
    \/ \E r \in Slots, body \in ClaimInputs : claimAddress(r, body)
    \/ \E r \in Slots : ClaimFetchBlock(r)
    \/ \E r \in Slots : ClaimGetMapping(r)
    \/ \E r \in Slots : ClaimSetMapping(r)
    \/ Tick
    \/ AdvanceChain

SpecClaim == InitClaim /\ [][NextClaim]_vars

(***************************************************************************)
(* Properties of POST /claimAddress (specification SpecClaim).             *)
(***************************************************************************)
\* C18: a binding (V, X) is written by POST /claimAddress only when, for the
\* request that writes it: the Substrate signature is V's over the message,
\* ethAddr equals ethSigner case-insensitively, the voter field of the
\* message equals V, ethSigner is a well-formed EVM address, the block is
\* within [C - 10, C] for the chain block C the request read, V is in the
\* subnet roster, and the EVM signature is over 'ethAddr|voter|block' and
\* recovers ethSigner.
C18_BindingOnlyAfterAllChecks ==
    [][address_map' # address_map =>
          \E r \in Slots :
              /\ claims[r].pc = "setMapping"
              /\ claims'[r].pc = "idle"
              /\ LET V == claims[r].address
                     message == claims[r].message
                     C == claims[r].currentChainBlock
                 IN  /\ \A row \in address_map' \ address_map : row.ss58Address = V
                     /\ Val(claims[r].signature) = SignatureOf(V, message)
                     /\ Len(message) = 5
                     /\ toLowerCase(EthAddrPayloadOf(message))
                            = toLowerCase(EthSignerOf(message))
                     /\ HotkeyPayloadOf(message) = V
                     /\ AddressFormatOk(EthSignerOf(message))
                     /\ Number(BlockNumStrOf(message)).kind = "finite"
                     /\ Number(BlockNumStrOf(message)).val >= C - 10
                     /\ Number(BlockNumStrOf(message)).val <= C
                     /\ V \in SubnetHotkeys
                     /\ EthSigOf(message).message
                            = <<EthAddrPayloadOf(message), HotkeyPayloadOf(message),
                                BlockNumStrOf(message)>>
                     /\ toLowerCase(EthSigOf(message).signer)
                            = toLowerCase(EthSignerOf(message))]_vars

\* Request r has reached the lookup and its pair (hotkey, ethSigner in
\* lowercase) is a row of address_map.
AlreadyBound(r) ==
    /\ claims[r].pc = "getMapping"
    /\ \E row \in address_map :
          /\ row.ss58Address = claims[r].address
          /\ row.ethereumAddress = toLowerCase(EthSignerOf(claims[r].message))

\* C19: a claim for a (voter, external) pair that is already bound is
\* answered with success = true and 'Mapping already exists', and no step
\* of the request changes address_map (updated_at included): the steps
\* before the lookup never write, and the lookup ends the request.
C19_RepeatedClaimNoOp ==
    [][\A r \in Slots :
          /\ (claims[r].pc \in {"idle", "fetchBlock"} /\ claims'[r] # claims[r]) =>
                address_map' = address_map
          /\ (AlreadyBound(r) /\ claims'[r] # claims[r]) =>
                /\ claimResponse'.result = ClaimSuccess("Mapping already exists")
                /\ claims'[r].pc = "idle"
                /\ address_map' = address_map]_vars

\* C19, the case: a claim was answered 'Mapping already exists' at a time
\* later than the updated_at of its binding, which is still in place.
C19_RepeatAnswered ==
    /\ claimResponse.returned
    /\ claimResponse.result = ClaimSuccess("Mapping already exists")
    /\ \E row \in address_map :
          /\ row.ss58Address = claimResponse.address
          /\ row.ethereumAddress = toLowerCase(EthSignerOf(claimResponse.message))
          /\ row.updated_at < now

\* No two rows of address_map share a hotkey or an Ethereum address.
BindingsUnique ==
    \A row1, row2 \in address_map :
        (\/ row1.ss58Address = row2.ss58Address
         \/ row1.ethereumAddress = row2.ethereumAddress) => row1 = row2

\* C20: bindings are unique on both columns in every state, and the write
\* of a claim of (V, X) leaves the binding (V, X) in place of every earlier
\* row of V or of X, the other rows staying as they were.
C20_BindingsUniqueOnBothColumns ==
    /\ []BindingsUnique
    /\ [][\A r \in Slots :
             (claims[r].pc = "setMapping" /\ claims'[r] # claims[r]) =>
                 LET V == claims[r].address
                     X == toLowerCase(EthSignerOf(claims[r].message))
                 IN  /\ \E row \in address_map' :
                           row.ss58Address = V /\ row.ethereumAddress = X
                     /\ \A row \in address_map' :
                           (row.ss58Address = V \/ row.ethereumAddress = X)
                               => (row.ss58Address = V /\ row.ethereumAddress = X)
                     /\ \A row \in address_map :
                           (row.ss58Address # V /\ row.ethereumAddress # X)
                               => row \in address_map']_vars

\* C20, the case: a successful claim displaced two bindings, the one of
\* its hotkey and the one of its Ethereum address.
C20_BothBindingsDisplaced ==
    /\ claimResponse.returned
    /\ claimResponse.result.success
    /\ Cardinality(claimResponse.replaced) = 2
    /\ \E row \in address_map :
          /\ row.ss58Address = claimResponse.address
          /\ row.ethereumAddress = toLowerCase(EthSignerOf(claimResponse.message))
    /\ \A row \in claimResponse.replaced : row \notin address_map

\* Bits of the significand of a number with a fraction.
Precision == 14

(***************************************************************************)
(* JavaScript numbers with a fraction.  A double is a significand and an   *)
(* exponent; the emission engine stays far from overflow and underflow, so *)
(* a number is m * 2^e with m = 0 or 2^(Precision-1) <= |m| < 2^Precision, *)
(* and every operation rounds its exact result to the nearest such number, *)
(* ties to the even significand (IEEE 754 round-to-nearest-even).          *)
(* Precision is 53 in the source; the model keeps the rounding and         *)
(* computes with fewer bits, enough to hold every vote weight exactly.     *)
(***************************************************************************)
RECURSIVE Pow2(_)
Pow2(k) == IF k = 0 THEN 1 ELSE 2 * Pow2(k - 1)

Abs(n) == IF n < 0 THEN -n ELSE n

FloatZero == [m |-> 0, e |-> 0]

FloatNeg(a) == [m |-> -a.m, e |-> a.e]

RECURSIVE RoundToFloat(_, _, _, _)
\* The number nearest to (q + r / den) * 2^e, for q >= 0, 0 <= r < den and
\* q + r > 0: binary long division down to Precision bits, then rounding.
RoundToFloat(q, r, den, e) ==
    IF q >= Pow2(Precision)
        THEN RoundToFloat(q \div 2, r + (q % 2) * den, 2 * den, e + 1)
    ELSE IF q < Pow2(Precision - 1)
        THEN RoundToFloat(2 * q + (IF 2 * r >= den THEN 1 ELSE 0),
                          IF 2 * r >= den THEN 2 * r - den ELSE 2 * r,
                          den, e - 1)
    ELSE LET up == 2 * r > den \/ (2 * r = den /\ q % 2 = 1)
             m == IF up THEN q + 1 ELSE q
         IN  IF m = Pow2(Precision) THEN [m |-> Pow2(Precision - 1), e |-> e + 1]
             ELSE [m |-> m, e |-> e]

\* The double nearest to num / den, for num >= 0 and den > 0: the value of a
\* decimal literal, and of parseFloat on a decimal string.
FloatOf(num, den) ==
    IF num = 0 THEN FloatZero ELSE RoundToFloat(num \div den, num % den, den, 0)

\* a < b
FloatLess(a, b) ==
    IF a.m <= 0 /\ b.m >= 0 THEN a.m < b.m
    ELSE IF a.m >= 0 /\ b.m <= 0 THEN FALSE
    ELSE IF a.m > 0 THEN a.e < b.e \/ (a.e = b.e /\ a.m < b.m)
    ELSE a.e > b.e \/ (a.e = b.e /\ a.m < b.m)

\* a > 0
FloatPositive(a) == a.m > 0

\* a + b: the exact sum, rounded; an addend too far below the other one
\* leaves it as it is.
FloatAdd(a, b) ==
    IF a.m = 0 THEN b
    ELSE IF b.m = 0 THEN a
    ELSE LET big == IF a.e >= b.e THEN a ELSE b
             small == IF a.e >= b.e THEN b ELSE a
             d == big.e - small.e
             sign == IF big.m < 0 THEN -1 ELSE 1
             rel == sign * small.m
             sum == RoundToFloat(Abs(big.m) * Pow2(d - 1) + (rel \div 2),
                                 rel % 2, 2, small.e + 1)
         IN  IF d > Precision + 1 THEN big
             ELSE IF d = 0
                 THEN IF a.m + b.m = 0 THEN FloatZero
                      ELSE LET r == RoundToFloat(Abs(a.m + b.m), 0, 1, a.e)
                           IN  IF a.m + b.m < 0 THEN FloatNeg(r) ELSE r
             ELSE IF sign < 0 THEN FloatNeg(sum) ELSE sum

\* a * b
FloatMul(a, b) ==
    IF a.m = 0 \/ b.m = 0 THEN FloatZero
    ELSE LET r == RoundToFloat(Abs(a.m) * Abs(b.m), 0, 1, a.e + b.e)
         IN  IF (a.m < 0) # (b.m < 0) THEN FloatNeg(r) ELSE r

\* a / b, for b # 0
FloatDiv(a, b) ==
    IF a.m = 0 THEN FloatZero
    ELSE LET r == RoundToFloat(Abs(a.m) \div Abs(b.m), Abs(a.m) % Abs(b.m),
                               Abs(b.m), a.e - b.e)
         IN  IF (a.m < 0) # (b.m < 0) THEN FloatNeg(r) ELSE r

(***************************************************************************)
(* Emission engine: pool emissions from the stored votes, position scores  *)
(* normalized per pool, and the per-miner weights GET /weights returns.    *)
(* Sums run in the order the source iterates: rows, pools and positions    *)
(* are sequences.                                                          *)
(***************************************************************************)
\* The integer n as a double.
FloatInt(n) == IF n < 0 THEN FloatNeg(FloatOf(-n, 1)) ELSE FloatOf(n, 1)

\* parseFloat(h.alphaBalanceRaw || '0'): the balance is the decimal string of
\* a bigint >= 0.
parseFloat(alphaBalanceRaw) == FloatOf(alphaBalanceRaw, 1)

\* pool.weight as a factor: JSON.parse gives an integer, or null where
\* JSON.stringify met NaN, and null * x is 0.
WeightFactor(weight) ==
    IF weight.kind = "finite" THEN FloatInt(weight.val) ELSE FloatZero

RECURSIVE FloatSum(_, _)
\* values.reduce((sum, x) => sum + x, 0) over the first n values.
FloatSum(values, n) ==
    IF n = 0 THEN FloatZero ELSE FloatAdd(FloatSum(values, n - 1), values[n])

\* The balance as the mutant reads it: 1 for an address outside the snapshot.
HolderBalanceDefaultOne(holders, address) ==
    IF \E h \in holders : h.address = address
        THEN parseFloat((CHOOSE h \in holders : h.address = address).alphaBalanceRaw)
    ELSE FloatInt(1)

\* holderMap.get(address) || 0
HolderBalance(holders, address) ==
    IF \E h \in holders : h.address = address
        THEN parseFloat((CHOOSE h \in holders : h.address = address).alphaBalanceRaw)
    ELSE FloatZero

\* votes.filter(vote => balance > 0)
validVotes(votes, holders) ==
    SelectSeq(votes, LAMBDA vote :
        FloatPositive(HolderBalance(holders, vote.ss58Address)))

totalAlphaTokens(votes, holders) ==
    LET valid == validVotes(votes, holders)
    IN  FloatSum([i \in DOMAIN valid |->
                     HolderBalance(holders, valid[i].ss58Address)], Len(valid))

\* The multiplier as the mutant computes it: the balance over the alpha of
\* every holder of the snapshot, voter or not.
weightMultiplierOverHolders(votes, holders, address) ==
    LET all == CHOOSE s \in [1..Cardinality(holders) -> holders] :
                   \A h \in holders : \E i \in DOMAIN s : s[i] = h
        total == FloatSum([i \in DOMAIN all |-> parseFloat(all[i].alphaBalanceRaw)],
                          Len(all))
    IN  IF FloatPositive(total)
            THEN FloatDiv(HolderBalance(holders, address), total)
        ELSE FloatZero

\* weightMultiplier of a valid vote
weightMultiplier(votes, holders, address) ==
    IF FloatPositive(totalAlphaTokens(votes, holders))
        THEN FloatDiv(HolderBalance(holders, address), totalAlphaTokens(votes, holders))
    ELSE FloatZero

RECURSIVE WeightedContributions(_, _, _)
\* The (pool, pool.weight * weightMultiplier) pairs of the first n valid
\* votes, in the order the two forEach loops visit them.
WeightedContributions(votes, holders, n) ==
    IF n = 0 THEN <<>>
    ELSE LET vote == validVotes(votes, holders)[n]
             multiplier == weightMultiplier(votes, holders, vote.ss58Address)
         IN  WeightedContributions(votes, holders, n - 1) \o
             [j \in DOMAIN vote.pools |->
                 [pool |-> toLowerCase(vote.pools[j].address),
                  value |-> FloatMul(WeightFactor(vote.pools[j].weight), multiplier)]]

\* emissionMap.set(poolAddress, totalWeight / VOTE_WEIGHT_TOTAL)
emissionShare(totalWeight) == FloatDiv(totalWeight, FloatInt(VOTE_WEIGHT_TOTAL))

\* emissionMap: lowercase pool address -> emission share.
calculatePoolEmissions(votes, holders) ==
    LET contributions ==
            WeightedContributions(votes, holders, Len(validVotes(votes, holders)))
        pools == {contributions[i].pool : i \in DOMAIN contributions}
        poolWeights == [p \in pools |->
            LET own == SelectSeq(contributions, LAMBDA c : c.pool = p)
            IN  FloatSum([i \in DOMAIN own |-> own[i].value], Len(own))]
    IN  [p \in pools |-> emissionShare(poolWeights[p])]

\* getActivePoolAddresses: the pools of the votes of voters with alpha.
getActivePoolAddresses(votes, holders) ==
    LET valid == validVotes(votes, holders)
    IN  UNION {{toLowerCase(valid[i].pools[j].address) : j \in DOMAIN valid[i].pools} :
                  i \in DOMAIN valid}

\* The range test as the mutant makes it: the bounds count as inside.
isValidPositionInclusive(position) ==
    /\ position.tickLower < position.tickUpper
    /\ position.tick >= position.tickLower
    /\ position.tick <= position.tickUpper

\* isValidPosition for a position whose pool and ticks the subgraph gave.
isValidPosition(position) ==
    /\ ~(position.tickLower >= position.tickUpper)
    /\ position.tick > position.tickLower
    /\ position.tick < position.tickUpper

\* calculatePositionScore(position, currentTick).finalScore.  The three
\* Math.exp values enter as position.gaussianMultiplier, their weighted
\* average, a number from 0 (all three underflow) to GAUSSIAN_AMPLITUDE;
\* position.liquidityAmount is liquidity / LIQUIDITY_NORMALIZATION_FACTOR.
calculatePositionScore(position, currentTick) ==
    IF position.tickLower >= position.tickUpper THEN FloatZero
    ELSE IF currentTick <= position.tickLower \/ currentTick >= position.tickUpper
        THEN FloatZero
    ELSE FloatMul(position.gaussianMultiplier, position.liquidityAmount)

RECURSIVE PoolRawScores(_, _)
\* The {minerId, positionId, rawScore} entries pushed for the first n miners,
\* each with its pool.
PoolRawScores(minerLiquidityPositions, n) ==
    IF n = 0 THEN <<>>
    ELSE LET miner == minerLiquidityPositions[n]
         IN  PoolRawScores(minerLiquidityPositions, n - 1) \o
             [j \in DOMAIN miner.positions |->
                 [minerId |-> miner.minerId,
                  positionId |-> miner.positions[j].id,
                  poolId |-> miner.positions[j].pool,
                  rawScore |-> calculatePositionScore(miner.positions[j],
                                                      miner.positions[j].tick)]]

\* totalRawScoreInPool
totalRawScoreInPool(minerLiquidityPositions, poolId) ==
    LET positionsInPool ==
            SelectSeq(PoolRawScores(minerLiquidityPositions,
                                    Len(minerLiquidityPositions)),
                      LAMBDA p : p.poolId = poolId)
    IN  FloatSum([i \in DOMAIN positionsInPool |-> positionsInPool[i].rawScore],
                 Len(positionsInPool))

\* The normalization as the mutant makes it: the raw score is kept.
NormalizedScoreRaw(rawScore, total) == rawScore

\* normalizedPositionScores[p.positionId] for one entry of a pool
NormalizedScore(rawScore, total) ==
    IF FloatPositive(total) THEN FloatDiv(rawScore, total) ELSE FloatZero

\* normalizedPositionScores: position id -> score.
calculateAndNormalizePoolScores(minerLiquidityPositions) ==
    LET entries == PoolRawScores(minerLiquidityPositions, Len(minerLiquidityPositions))
    IN  [positionId \in {entries[i].positionId : i \in DOMAIN entries} |->
            LET p == entries[CHOOSE i \in DOMAIN entries :
                                 entries[i].positionId = positionId]
            IN  NormalizedScore(p.rawScore,
                                totalRawScoreInPool(minerLiquidityPositions, p.poolId))]

\* minerTotalContribution of one miner
minerTotalContribution(positions, normalizedPositionScores, poolWeights) ==
    FloatSum([j \in DOMAIN positions |->
                 FloatMul(IF positions[j].id \in DOMAIN normalizedPositionScores
                              THEN normalizedPositionScores[positions[j].id]
                          ELSE FloatZero,
                          IF toLowerCase(positions[j].pool) \in DOMAIN poolWeights
                              THEN poolWeights[toLowerCase(positions[j].pool)]
                          ELSE FloatZero)],
             Len(positions))

\* const threshold = 1e-9
threshold == FloatOf(1, 1000000000)

\* The cut as the mutant makes it: every weight is kept.
ThresholdedKeepAll(weight) == weight

\* if (finalMinerWeights[minerId] < threshold) finalMinerWeights[minerId] = 0
Thresholded(weight) == IF FloatLess(weight, threshold) THEN FloatZero ELSE weight

\* finalMinerWeights: the miners in insertion order, each with its weight.
calculateFinalMinerWeights(minerLiquidityPositions, normalizedPositionScores, poolWeights) ==
    LET raw == [i \in DOMAIN minerLiquidityPositions |->
                   Thresholded(minerTotalContribution(
                       minerLiquidityPositions[i].positions,
                       normalizedPositionScores, poolWeights))]
        totalWeight == FloatSum(raw, Len(raw))
    IN  [i \in DOMAIN minerLiquidityPositions |->
            [minerId |-> minerLiquidityPositions[i].minerId,
             weight |-> IF FloatPositive(totalWeight)
                            THEN FloatDiv(raw[i], totalWeight)
                        ELSE raw[i]]]

(***************************************************************************)
(* GET /weights past its rate limit, on stored votes, a holder snapshot    *)
(* and fetched positions drawn from the sets below, one step per call of   *)
(* the handler; calculateAndNormalizePoolScores is also applied to the     *)
(* fetched positions as they are.                                          *)
(***************************************************************************)
StoredEntry(address, weight) == [address |-> address, weight |-> Num(weight)]

\* What POST /updateVotes can have stored for a voter: normalized weights
\* that sum to VOTE_WEIGHT_TOTAL, among them one negative weight, and the
\* null JSON.stringify writes for a NaN weight.
AliceVotes ==
    {<<StoredEntry(PoolA, VOTE_WEIGHT_TOTAL)>>,
     <<StoredEntry(PoolA, 3333), StoredEntry(PoolB, 6667)>>,
     <<StoredEntry(PoolA, 1), StoredEntry(PoolB, 9999)>>,
     <<StoredEntry(PoolA, 9999), StoredEntry(PoolB, 1), StoredEntry(PoolC, 1),
       StoredEntry(PoolD, -1)>>,
     JSONstringify(<<[address |-> PoolA, weight |-> NaN]>>)}
BobVotes ==
    {<<StoredEntry(PoolB, VOTE_WEIGHT_TOTAL)>>,
     <<StoredEntry(PoolAUpper, 7365), StoredEntry(PoolB, 2635)>>}
CarolVotes ==
    {<<StoredEntry(PoolA, VOTE_WEIGHT_TOTAL)>>}

VoteRow(address, pools) == [ss58Address |-> address, pools |-> pools]

\* The rows of user_votes, in the order the SELECT returns them.
VoteTables ==
    {alice \o bob \o carol :
        alice \in {<<>>} \cup {<<VoteRow("5Alice", pools)>> : pools \in AliceVotes},
        bob \in {<<>>} \cup {<<VoteRow("5Bob", pools)>> : pools \in BobVotes},
        carol \in {<<>>} \cup {<<VoteRow("5Carol", pools)>> : pools \in CarolVotes}}

Holder(address, alphaBalanceRaw) ==
    [address |-> address, alphaBalanceRaw |-> alphaBalanceRaw]

\* Holder snapshots: fetchAllHolders lists a coldkey with its alpha, which
\* may be 0.
HolderTables ==
    {{Holder("5Alice", 30), Holder("5Bob", 70)},
     {Holder("5Alice", 100), Holder("5Bob", 0)},
     {Holder("5Alice", 49), Holder("5Bob", 31), Holder("5Carol", 14)},
     {Holder("5Dave", 1000), Holder("5Alice", 1), Holder("5Bob", 2)},
     {Holder("5Alice", 1), Holder("5Bob", 1000000)}}

Position(id, pool, tickLower, tickUpper, tick, gaussianMultiplier, liquidityAmount) ==
    [id |-> id, pool |-> pool, tickLower |-> tickLower, tickUpper |-> tickUpper,
     tick |-> tick, gaussianMultiplier |-> gaussianMultiplier,
     liquidityAmount |-> liquidityAmount]

Miner(minerId, positions) == [minerId |-> minerId, positions |-> positions]

\* A position in range with gaussian multiplier 5.
InRange(id, pool, liquidityAmount) ==
    Position(id, pool, 10, 20, 15, FloatInt(5), liquidityAmount)

\* What getMinerLiquidityPositions can return, per miner in key order:
\* positions in and out of range, a pool whose every multiplier underflowed,
\* a position 2^17 times smaller than its neighbour, a miner without any.
FetchedPositions ==
    {<<Miner("5M1", <<InRange("p1", PoolA, FloatInt(1))>>),
       Miner("5M2", <<InRange("p2", PoolA, FloatInt(2))>>),
       Miner("5M3", <<InRange("p3", PoolB, FloatInt(1))>>)>>,
     <<Miner("5M1", <<InRange("p1", PoolA, FloatInt(1)),
                      Position("p6", PoolA, 10, 20, 25, FloatInt(5), FloatInt(1))>>),
       Miner("5M2", <<InRange("p2", PoolA, FloatInt(1))>>),
       Miner("5M3", <<InRange("p3", PoolA, FloatInt(1)),
                      InRange("p4", PoolB, FloatInt(3))>>)>>,
     <<Miner("5M1", <<InRange("p1", PoolA, FloatInt(1)),
                      InRange("p5", PoolB, FloatInt(1))>>),
       Miner("5M2", <<InRange("p2", PoolA, FloatOf(1, 131072))>>),
       Miner("5M3", <<InRange("p3", PoolB, FloatInt(2))>>)>>,
     <<Miner("5M1", <<InRange("p1", PoolA, FloatInt(1))>>),
       Miner("5M2", <<InRange("p2", PoolA, FloatInt(3))>>)>>,
     <<Miner("5M1", <<InRange("p1", PoolA, FloatInt(1)),
                      Position("p4", PoolA, 10, 20, 25, FloatInt(5), FloatInt(7))>>),
       Miner("5M2", <<Position("p2", PoolA, 10, 20, 10, FloatInt(5), FloatInt(1)),
                      Position("p3", PoolB, 10, 20, 20, FloatInt(5), FloatInt(1))>>)>>,
     <<Miner("5M1", <<Position("p1", PoolA, 10, 20, 15, FloatZero, FloatInt(1))>>),
       Miner("5M2", <<Position("p2", PoolA, 10, 20, 15, FloatZero, FloatInt(4))>>)>>,
     <<Miner("5M1", <<>>)>>}

WeightsInputs ==
    {[stage |-> "input", votes |-> votes, holders |-> holders, fetched |-> fetched,
      positionsByMiner |-> Null, poolEmissions |-> Null,
      normalizedPositionScores |-> Null, finalMinerWeights |-> Null,
      fetchedScores |-> Null] :
        votes \in VoteTables, holders \in HolderTables, fetched \in FetchedPositions}

InitWeights ==
    /\ now = 0
    /\ chainBlock = StartBlock
    /\ InitStore
    /\ reqs = [r \in Slots |-> IdleReq]
    /\ response = NoResponse
    /\ submitted = 0
    /\ ticks = 0
    /\ probe \in {Some(p) : p \in WeightsInputs}
    /\ NoClaims
    /\ ServerIdle

\* getMinerPositions on an empty or expired cache: the fetched positions that
\* pass isValidPosition, then those of them in a pool with a live vote.
getMinerPositions(fetched, votes, holders) ==
    [i \in DOMAIN fetched |->
        Miner(fetched[i].minerId,
              SelectSeq(SelectSeq(fetched[i].positions, isValidPosition),
                        LAMBDA position :
                            toLowerCase(position.pool)
                                \in getActivePoolAddresses(votes, holders)))]

WeightsStep(from, to) ==
    /\ ~IsNull(probe)
    /\ Val(probe).stage = from
    /\ \E p \in {[Val(probe) EXCEPT !.stage = to]} :
          probe' = Some(
              CASE to = "positions" ->
                       [p EXCEPT !.positionsByMiner =
                           Some(getMinerPositions(p.fetched, p.votes, p.holders))]
                [] to = "emissions" ->
                       [p EXCEPT !.poolEmissions =
                           Some(calculatePoolEmissions(p.votes, p.holders))]
                [] to = "scores" ->
                       [p EXCEPT !.normalizedPositionScores =
                           Some(calculateAndNormalizePoolScores(Val(p.positionsByMiner)))]
                [] to = "weights" ->
                       [p EXCEPT !.finalMinerWeights =
                           Some(calculateFinalMinerWeights(
                                    Val(p.positionsByMiner),
                                    Val(p.normalizedPositionScores),
                                    Val(p.poolEmissions)))]
                [] to = "scored" ->
                       [p EXCEPT !.fetchedScores =
                           Some(calculateAndNormalizePoolScores(p.fetched))])
    /\ UNCHANGED <<now, chainBlock, holdersCache, user_votes, vote_change_history,
                   pool_info, reqs, response, submitted, ticks, accepted>>
    /\ UNCHANGED claimVars
    /\ UNCHANGED serverVars

\* The four awaited calls of the handler, in its order.
weightsGetMinerPositions == WeightsStep("input", "positions")
weightsCalculatePoolEmissions == WeightsStep("positions", "emissions")
weightsNormalizePoolScores == WeightsStep("emissions", "scores")
weightsFinalMinerWeights == WeightsStep("scores", "weights")
\* calculateAndNormalizePoolScores on the fetched positions themselves.
scoreFetchedPositions == WeightsStep("input", "scored")

NextWeights ==
    \/ weightsGetMinerPositions
    \/ weightsCalculatePoolEmissions
    \/ weightsNormalizePoolScores
    \/ weightsFinalMinerWeights
    \/ scoreFetchedPositions

SpecWeights == InitWeights /\ [][NextWeights]_vars

(***************************************************************************)
(* Exact values for the properties below: a number as hi * 2^-24 +         *)
(* lo * 2^-52 with 0 <= lo < 2^28, so that sums of numbers of different    *)
(* magnitude are compared without rounding.                                *)
(***************************************************************************)
ExactNeg(x) ==
    IF x.lo = 0 THEN [hi |-> -x.hi, lo |-> 0]
    ELSE [hi |-> -x.hi - 1, lo |-> Pow2(28) - x.lo]

ExactOf(x) ==
    LET m == Abs(x.m)
        magnitude ==
            IF x.e >= -24 THEN [hi |-> m * Pow2(x.e + 24), lo |-> 0]
            ELSE [hi |-> m \div Pow2(-24 - x.e),
                  lo |-> (m % Pow2(-24 - x.e)) * Pow2(52 + x.e)]
    IN  IF x.m < 0 THEN ExactNeg(magnitude) ELSE magnitude

ExactAdd(x, y) ==
    [hi |-> x.hi + y.hi + ((x.lo + y.lo) \div Pow2(28)),
     lo |-> (x.lo + y.lo) % Pow2(28)]

RECURSIVE ExactSum(_, _)
\* The sum of the first n numbers of a sequence, without rounding.
ExactSum(values, n) ==
    IF n = 0 THEN [hi |-> 0, lo |-> 0]
    ELSE ExactAdd(ExactSum(values, n - 1), ExactOf(values[n]))

ExactOne == [hi |-> Pow2(24), lo |-> 0]

\* | x - 1 | <= count * 2^(1 - Precision): x is 1 up to the rounding of count
\* numbers.
OneUpToRounding(x, count) ==
    LET tolerance == count * Pow2(25 - Precision)
    IN  /\ x.hi >= Pow2(24) - tolerance
        /\ x.hi < Pow2(24) + tolerance \/ (x.hi = Pow2(24) + tolerance /\ x.lo = 0)

(***************************************************************************)
(* Properties of GET /weights (specification SpecWeights).                 *)
(***************************************************************************)
WeightsReturned == ~IsNull(probe) /\ Val(probe).stage = "weights"

\* The weight of each miner before the cut at the threshold.
RawMinerWeights ==
    [i \in DOMAIN Val(Val(probe).positionsByMiner) |->
        minerTotalContribution(Val(Val(probe).positionsByMiner)[i].positions,
                               Val(Val(probe).normalizedPositionScores),
                               Val(Val(probe).poolEmissions))]

ReturnedWeights ==
    [i \in DOMAIN Val(Val(probe).finalMinerWeights) |->
        Val(Val(probe).finalMinerWeights)[i].weight]

SomeRawWeightAtThreshold ==
    \E i \in DOMAIN RawMinerWeights : ~FloatLess(RawMinerWeights[i], threshold)

\* What C21 states besides the sum: no weight is negative, a raw weight
\* below 1e-9 gives weight 0, and every weight is 0 when no raw weight
\* reaches 1e-9.
C21_CutAndSign ==
    /\ \A i \in DOMAIN ReturnedWeights : ReturnedWeights[i].m >= 0
    /\ \A i \in DOMAIN ReturnedWeights :
          FloatLess(RawMinerWeights[i], threshold) => ReturnedWeights[i] = FloatZero
    /\ ~SomeRawWeightAtThreshold =>
          \A i \in DOMAIN ReturnedWeights : ReturnedWeights[i] = FloatZero

\* C21 as stated: the weights GET /weights returns are not negative and sum
\* to exactly 1 when some miner's raw weight is at least 1e-9, and are all 0
\* otherwise; raw weights below 1e-9 are cut to 0 before the renormalization.
C21_SumsToExactlyOne ==
    WeightsReturned =>
        /\ C21_CutAndSign
        /\ SomeRawWeightAtThreshold =>
              ExactSum(ReturnedWeights, Len(ReturnedWeights)) = ExactOne

\* C21, amended: the weights GET /weights returns are not negative and sum
\* to 1 up to floating-point rounding (within n * 2^(1 - Precision) for n
\* miners, n * 2^-52 in doubles) when some miner's raw weight is at least
\* 1e-9, and are all 0 otherwise; raw weights below 1e-9 are cut to 0 before
\* the renormalization.
C21_SumsToOneUpToRounding ==
    WeightsReturned =>
        /\ C21_CutAndSign
        /\ SomeRawWeightAtThreshold =>
              OneUpToRounding(ExactSum(ReturnedWeights, Len(ReturnedWeights)),
                              Len(ReturnedWeights))

\* A miner's positive raw weight was cut, another miner's weight was kept,
\* and the weights returned do not sum to 1.
C21_CutAndRoundedSum ==
    /\ WeightsReturned
    /\ SomeRawWeightAtThreshold
    /\ \E i \in DOMAIN RawMinerWeights :
          /\ FloatPositive(RawMinerWeights[i])
          /\ FloatLess(RawMinerWeights[i], threshold)
    /\ ExactSum(ReturnedWeights, Len(ReturnedWeights)) # ExactOne

(***************************************************************************)
(* Properties of calculatePoolEmissions (specification SpecWeights).       *)
(***************************************************************************)
EmissionsComputed == ~IsNull(probe) /\ ~IsNull(Val(probe).poolEmissions)

\* The emissions E[p], one per pool of the map, as a sequence.
EmissionValues ==
    LET E == Val(Val(probe).poolEmissions)
        order == CHOOSE s \in [1..Cardinality(DOMAIN E) -> DOMAIN E] :
                     \A p \in DOMAIN E : \E i \in DOMAIN s : s[i] = p
    IN  [i \in DOMAIN order |-> E[order[i]]]

ExactLeq(x, y) == x.hi < y.hi \/ (x.hi = y.hi /\ x.lo <= y.lo)

RECURSIVE IntSum(_, _)
IntSum(values, n) == IF n = 0 THEN 0 ELSE IntSum(values, n - 1) + values[n]

\* The stored weights of a vote are numbers that sum to exactly 10000.
WeightsSumToTotal(pools) ==
    /\ \A j \in DOMAIN pools : pools[j].weight.kind = "finite"
    /\ IntSum([j \in DOMAIN pools |-> pools[j].weight.val], Len(pools))
           = VOTE_WEIGHT_TOTAL

\* The voters of the stored votes who hold alpha.
VotersWithAlpha ==
    {i \in DOMAIN Val(probe).votes :
        \E h \in Val(probe).holders :
            /\ h.address = Val(probe).votes[i].ss58Address
            /\ h.alphaBalanceRaw > 0}

EveryVoteSumsToTotal ==
    /\ VotersWithAlpha # {}
    /\ \A i \in VotersWithAlpha : WeightsSumToTotal(Val(probe).votes[i].pools)

\* The rounded operations behind the emissions: two per stored pool entry
\* and two per voter.
EmissionRoundings ==
    2 * Len(Val(probe).votes) * (MAX_POOLS_PER_REQUEST + 1)

\* C22 as stated: the emissions sum to at most 1, and to 1 whenever some
\* voter with alpha has a stored vote and the weights of every such voter
\* sum to exactly 10000.
C22_EmissionsSumAtMostOne ==
    EmissionsComputed =>
        /\ ExactLeq(ExactSum(EmissionValues, Len(EmissionValues)), ExactOne)
        /\ EveryVoteSumsToTotal =>
              ExactSum(EmissionValues, Len(EmissionValues)) = ExactOne

\* C22, amended: up to floating-point rounding, the emissions sum to at most
\* 1, and to 1 whenever some voter with alpha has a stored vote and the
\* weights of every such voter sum to exactly 10000.
C22_EmissionsSumUpToRounding ==
    EmissionsComputed =>
        LET total == ExactSum(EmissionValues, Len(EmissionValues))
            slack == EmissionRoundings * Pow2(25 - Precision)
        IN  /\ ExactLeq(total, [hi |-> Pow2(24) + slack, lo |-> 0])
            /\ EveryVoteSumsToTotal => OneUpToRounding(total, EmissionRoundings)

\* Two voters with alpha whose weights sum to 10000 each, and emissions that
\* sum to more than 1.
C22_RoundedAboveOne ==
    /\ EmissionsComputed
    /\ EveryVoteSumsToTotal
    /\ Cardinality(VotersWithAlpha) >= 2
    /\ ~ExactLeq(ExactSum(EmissionValues, Len(EmissionValues)), ExactOne)

\* The rows of the voters that survive: in the holder snapshot, alpha > 0.
SurvivingVotes ==
    SelectSeq(Val(probe).votes, LAMBDA vote :
        \E h \in Val(probe).holders :
            h.address = vote.ss58Address /\ h.alphaBalanceRaw > 0)

AlphaOf(address) ==
    parseFloat((CHOOSE h \in Val(probe).holders : h.address = address).alphaBalanceRaw)

\* T: the alpha of the surviving voters.
SurvivingAlpha ==
    FloatSum([i \in DOMAIN SurvivingVotes |-> AlphaOf(SurvivingVotes[i].ss58Address)],
             Len(SurvivingVotes))

RECURSIVE StatedTerms(_, _)
\* w(v, p) * (alpha_v / T) for the first n surviving voters v, one term per
\* entry that names pool p.
StatedTerms(p, n) ==
    IF n = 0 THEN <<>>
    ELSE LET vote == SurvivingVotes[n]
             entries == SelectSeq(vote.pools, LAMBDA pool : toLowerCase(pool.address) = p)
         IN  StatedTerms(p, n - 1) \o
             [j \in DOMAIN entries |->
                 FloatMul(WeightFactor(entries[j].weight),
                          FloatDiv(AlphaOf(vote.ss58Address), SurvivingAlpha))]

StatedEmission(p) ==
    FloatDiv(FloatSum(StatedTerms(p, Len(SurvivingVotes)),
                      Len(StatedTerms(p, Len(SurvivingVotes)))),
             FloatInt(VOTE_WEIGHT_TOTAL))

VotedPools ==
    UNION {{toLowerCase(SurvivingVotes[i].pools[j].address) :
               j \in DOMAIN SurvivingVotes[i].pools} : i \in DOMAIN SurvivingVotes}

\* Alpha 30 votes pool A and alpha 70 votes pool B.
ThirtySeventy ==
    /\ Val(probe).holders = {Holder("5Alice", 30), Holder("5Bob", 70)}
    /\ Val(probe).votes =
           <<VoteRow("5Alice", <<StoredEntry(PoolA, VOTE_WEIGHT_TOTAL)>>),
             VoteRow("5Bob", <<StoredEntry(PoolB, VOTE_WEIGHT_TOTAL)>>)>>

\* C23: the emission of pool p is the sum, over the voters v with a stored
\* vote and alpha_v > 0 in the holder snapshot, of w(v,p) * (alpha_v / T),
\* divided by 10000, where T is the alpha of those voters; no other voter
\* contributes; a single surviving voter has multiplier 1, so that its pool
\* with weight w gets w / 10000; alpha 30 voting A and alpha 70 voting B
\* give E[A] = 0.3 and E[B] = 0.7.
C23_AlphaWeightedVoteShare ==
    EmissionsComputed =>
        LET E == Val(Val(probe).poolEmissions)
        IN  /\ DOMAIN E = VotedPools
            /\ \A p \in DOMAIN E : E[p] = StatedEmission(p)
            /\ Len(SurvivingVotes) = 1 =>
                  \A j \in DOMAIN SurvivingVotes[1].pools :
                      LET pool == SurvivingVotes[1].pools[j]
                      IN  (pool.weight.kind = "finite" /\ pool.weight.val >= 0
                           /\ \A k \in DOMAIN SurvivingVotes[1].pools :
                                 k # j => SurvivingVotes[1].pools[k].address
                                              # pool.address)
                          => E[toLowerCase(pool.address)]
                                 = FloatOf(pool.weight.val, VOTE_WEIGHT_TOTAL)
            /\ ThirtySeventy => E[PoolA] = FloatOf(3, 10) /\ E[PoolB] = FloatOf(7, 10)

\* Emissions were computed from votes of which one voter holds no alpha, one
\* is absent from the snapshot and one survives alone.
C23_OneSurvivor ==
    /\ EmissionsComputed
    /\ Len(Val(probe).votes) = 3
    /\ Len(SurvivingVotes) = 1
    /\ \E p \in DOMAIN Val(Val(probe).poolEmissions) :
          FloatPositive(Val(Val(probe).poolEmissions)[p])

(***************************************************************************)
(* Properties of calculateAndNormalizePoolScores (specification            *)
(* SpecWeights), applied to the fetched positions.                         *)
(***************************************************************************)
ScoresComputed == ~IsNull(probe) /\ Val(probe).stage = "scored"

\* Every fetched position, miner after miner.
RECURSIVE AllPositions(_, _)
AllPositions(miners, n) ==
    IF n = 0 THEN <<>> ELSE AllPositions(miners, n - 1) \o miners[n].positions

FetchedOfPool(poolId) ==
    SelectSeq(AllPositions(Val(probe).fetched, Len(Val(probe).fetched)),
              LAMBDA position : position.pool = poolId)

FetchedPools ==
    LET all == AllPositions(Val(probe).fetched, Len(Val(probe).fetched))
    IN  {all[i].pool : i \in DOMAIN all}

\* r_i of the positions of a pool, and their sum R.
RawScoresOfPool(poolId) ==
    [i \in DOMAIN FetchedOfPool(poolId) |->
        calculatePositionScore(FetchedOfPool(poolId)[i], FetchedOfPool(poolId)[i].tick)]

RawTotalOfPool(poolId) ==
    FloatSum(RawScoresOfPool(poolId), Len(RawScoresOfPool(poolId)))

NormalizedOfPool(poolId) ==
    [i \in DOMAIN FetchedOfPool(poolId) |->
        Val(Val(probe).fetchedScores)[FetchedOfPool(poolId)[i].id]]

StrictlyInside(position) ==
    position.tickLower < position.tick /\ position.tick < position.tickUpper

\* What C24 states besides the sum: the normalized score is r_i / R when
\* R > 0 and 0 when R = 0, and a position whose tick is not strictly inside
\* its range has raw score 0 and normalized score 0.
C24_QuotientAndRange ==
    \A poolId \in FetchedPools :
        \A i \in DOMAIN FetchedOfPool(poolId) :
            /\ FloatPositive(RawTotalOfPool(poolId)) =>
                  NormalizedOfPool(poolId)[i]
                      = FloatDiv(RawScoresOfPool(poolId)[i], RawTotalOfPool(poolId))
            /\ RawTotalOfPool(poolId) = FloatZero =>
                  NormalizedOfPool(poolId)[i] = FloatZero
            /\ ~StrictlyInside(FetchedOfPool(poolId)[i]) =>
                  /\ RawScoresOfPool(poolId)[i] = FloatZero
                  /\ NormalizedOfPool(poolId)[i] = FloatZero

\* C24 as stated: within each pool the normalized scores are r_i / R, sum to
\* 1 when R > 0 and are all 0 when R = 0, and a position whose tick is not
\* strictly inside (tickLower, tickUpper) has raw and normalized score 0.
C24_ScoresSumToOne ==
    ScoresComputed =>
        /\ C24_QuotientAndRange
        /\ \A poolId \in FetchedPools :
              FloatPositive(RawTotalOfPool(poolId)) =>
                  ExactSum(NormalizedOfPool(poolId), Len(NormalizedOfPool(poolId)))
                      = ExactOne

\* C24, amended: within each pool the normalized scores are r_i / R, sum to
\* 1 up to floating-point rounding (within n * 2^(1 - Precision) for n
\* positions) when R > 0 and are all 0 when R = 0, and a position whose tick
\* is not strictly inside (tickLower, tickUpper) has raw and normalized
\* score 0.
C24_ScoresSumToOneUpToRounding ==
    ScoresComputed =>
        /\ C24_QuotientAndRange
        /\ \A poolId \in FetchedPools :
              FloatPositive(RawTotalOfPool(poolId)) =>
                  OneUpToRounding(
                      ExactSum(NormalizedOfPool(poolId), Len(NormalizedOfPool(poolId))),
                      Len(NormalizedOfPool(poolId)))

\* A pool with a position out of range and positions in range whose
\* normalized scores do not sum to 1.
C24_OutOfRangeAndRoundedSum ==
    /\ ScoresComputed
    /\ \E poolId \in FetchedPools :
          /\ FloatPositive(RawTotalOfPool(poolId))
          /\ \E i \in DOMAIN FetchedOfPool(poolId) :
                ~StrictlyInside(FetchedOfPool(poolId)[i])
          /\ ExactSum(NormalizedOfPool(poolId), Len(NormalizedOfPool(poolId)))
                 # ExactOne

(***************************************************************************)
(* The liquidity-positions cache.  getMinerPositions is one action per     *)
(* await: the cache test, the subgraph fetch with its filter, the write of *)
(* the cache after the USD enhancement, and the return after the read of   *)
(* the active pools.  The subgraph reports each position with the tick its *)
(* pool has at the time of the fetch, and pool ticks move.                 *)
(***************************************************************************)
MaxCacheTicks == 1

LIQUIDITY_POSITIONS_CACHE_TTL_MS == 1 * 60 * 1000

\* The ticks a pool moves between: inside the ranges below, on a bound, and
\* outside.
TickValues(pool) == IF pool = PoolA THEN {10, 15, 25} ELSE {15, 25}

\* getMinerLiquidityPositions: the positions of the miners, each with the
\* current tick of its pool.
SubgraphPositions ==
    <<Miner("5M1", <<Position("p1", PoolA, 10, 20, poolTick[PoolA],
                              FloatInt(5), FloatInt(1)),
                     Position("p2", PoolB, 10, 20, poolTick[PoolB],
                              FloatInt(5), FloatInt(1))>>),
      Miner("5M2", <<Position("p3", PoolA, 0, 25, poolTick[PoolA],
                              FloatInt(5), FloatInt(2))>>)>>

\* SELECT ss58Address, pools FROM user_votes, as rows.
UserVoteRows ==
    LET voters == {a \in Addresses : ~IsNull(user_votes[a])}
        order == CHOOSE s \in [1..Cardinality(voters) -> voters] :
                     \A a \in voters : \E i \in DOMAIN s : s[i] = a
    IN  [i \in DOMAIN order |-> VoteRow(order[i], Val(user_votes[order[i]]).pools)]

IdlePositionCall == [pc |-> "idle", positionsByMiner |-> <<>>, fromCache |-> FALSE]

\* fetchedPositions[minerId].filter(position => isValidPosition(position))
filteredPositions(fetchedPositions) ==
    [i \in DOMAIN fetchedPositions |->
        Miner(fetchedPositions[i].minerId,
              SelectSeq(fetchedPositions[i].positions, isValidPosition))]

\* positionsByMiner[minerId].filter(position => activePoolsSet.has(...))
activePositionsByMiner(positionsByMiner, activePools) ==
    [i \in DOMAIN positionsByMiner |->
        Miner(positionsByMiner[i].minerId,
              SelectSeq(positionsByMiner[i].positions,
                        LAMBDA position : toLowerCase(position.pool) \in activePools))]

PositionsUnchanged ==
    UNCHANGED <<chainBlock, holdersCache, user_votes, vote_change_history,
                pool_info, reqs, response, submitted, accepted, probe>>
    /\ UNCHANGED <<claimVars, rateVars, holderVars, pingVars, watcherVars>>

\* The cache test of line 419.
PositionsStart(c) ==
    /\ positionCalls[c].pc = "idle"
    /\ IF ~IsNull(liquidityPositionsCache.data)
          /\ now - liquidityPositionsCache.lastUpdated
                 < LIQUIDITY_POSITIONS_CACHE_TTL_MS
           THEN positionCalls' = [positionCalls EXCEPT ![c] =
                    [pc |-> "active",
                     positionsByMiner |-> Val(liquidityPositionsCache.data),
                     fromCache |-> TRUE]]
       ELSE positionCalls' = [positionCalls EXCEPT ![c].pc = "fetching"]
    /\ UNCHANGED <<now, ticks, liquidityPositionsCache, poolTick, positionsResult>>
    /\ PositionsUnchanged

\* await getMinerLiquidityPositions: an error is thrown to the caller, a
\* result is filtered with isValidPosition.
PositionsFetch(c) ==
    /\ positionCalls[c].pc = "fetching"
    /\ \E failed \in BOOLEAN :
          IF failed
              THEN /\ positionCalls' = [positionCalls EXCEPT ![c] = IdlePositionCall]
                   /\ positionsResult' =
                          Some([ok |-> FALSE, positions |-> <<>>, fromCache |-> FALSE])
          ELSE /\ positionCalls' = [positionCalls EXCEPT ![c] =
                      [pc |-> "enhancing",
                       positionsByMiner |-> filteredPositions(SubgraphPositions),
                       fromCache |-> FALSE]]
               /\ UNCHANGED positionsResult
    /\ UNCHANGED <<now, ticks, liquidityPositionsCache, poolTick>>
    /\ PositionsUnchanged

\* await enhancePositionsWithUSDValues, which adds a USD value to each
\* position or fails and leaves them as they are; then line 455.
PositionsStore(c) ==
    /\ positionCalls[c].pc = "enhancing"
    /\ liquidityPositionsCache' =
           [data |-> Some(positionCalls[c].positionsByMiner), lastUpdated |-> now]
    /\ positionCalls' = [positionCalls EXCEPT ![c].pc = "active"]
    /\ UNCHANGED <<now, ticks, poolTick, positionsResult>>
    /\ PositionsUnchanged

\* await getActivePoolAddresses, the filter on active pools, and the return.
PositionsReturn(c) ==
    /\ positionCalls[c].pc = "active"
    /\ positionsResult' =
           Some([ok |-> TRUE,
                 positions |-> activePositionsByMiner(
                     positionCalls[c].positionsByMiner,
                     getActivePoolAddresses(UserVoteRows, holdersCache)),
                 fromCache |-> positionCalls[c].fromCache])
    /\ positionCalls' = [positionCalls EXCEPT ![c] = IdlePositionCall]
    /\ UNCHANGED <<now, ticks, liquidityPositionsCache, poolTick>>
    /\ PositionsUnchanged

\* The price of a pool moves.
MovePoolTick(pool, tick) ==
    /\ poolTick[pool] # tick
    /\ poolTick' = [poolTick EXCEPT ![pool] = tick]
    /\ UNCHANGED <<now, ticks, liquidityPositionsCache, positionCalls, positionsResult>>
    /\ PositionsUnchanged

PositionsTick(step) ==
    /\ ticks < MaxCacheTicks
    /\ ticks' = ticks + 1
    /\ now' = now + step
    /\ UNCHANGED <<liquidityPositionsCache, poolTick, positionCalls, positionsResult>>
    /\ PositionsUnchanged

InitPositions ==
    /\ now = 0
    /\ chainBlock = StartBlock
    /\ StoreWithVote
    /\ reqs = [r \in Slots |-> IdleReq]
    /\ response = NoResponse
    /\ submitted = 0
    /\ ticks = 0
    /\ probe = Null
    /\ NoClaims
    /\ ServerIdle

NextPositions ==
    \/ \E c \in Slots : PositionsStart(c)
    \/ \E c \in Slots : PositionsFetch(c)
    \/ \E c \in Slots : PositionsStore(c)
    \/ \E c \in Slots : PositionsReturn(c)
    \/ \E pool \in DOMAIN poolTick : \E tick \in TickValues(pool) :
          MovePoolTick(pool, tick)
    \/ PositionsTick(LIQUIDITY_POSITIONS_CACHE_TTL_MS)

SpecPositions == InitPositions /\ [][NextPositions]_vars

(***************************************************************************)
(* Properties of the liquidity-positions cache (specification              *)
(* SpecPositions).                                                         *)
(***************************************************************************)
CachedPositions ==
    IF IsNull(liquidityPositionsCache.data) THEN <<>>
    ELSE AllPositions(Val(liquidityPositionsCache.data),
                      Len(Val(liquidityPositionsCache.data)))

ReturnedPositions ==
    IF IsNull(positionsResult) THEN <<>>
    ELSE AllPositions(Val(positionsResult).positions,
                      Len(Val(positionsResult).positions))

\* C25: every position in the liquidity-positions cache, after any sequence
\* of refreshes, has tickLower < tick < tickUpper for the tick it is cached
\* with, and so has every position getMinerPositions returns: a position
\* with tickLower 10, tickUpper 20 and tick 25 is in neither and gets no
\* score.
C25_CacheHoldsActivePositionsOnly ==
    /\ \A i \in DOMAIN CachedPositions : StrictlyInside(CachedPositions[i])
    /\ \A i \in DOMAIN ReturnedPositions : StrictlyInside(ReturnedPositions[i])
    /\ ~IsNull(positionsResult) =>
          \A id \in DOMAIN calculateAndNormalizePoolScores(Val(positionsResult).positions) :
              \E i \in DOMAIN ReturnedPositions :
                  /\ ReturnedPositions[i].id = id
                  /\ StrictlyInside(ReturnedPositions[i])

\* A refresh after the first one has dropped the position with tickLower 10
\* and tickUpper 20 of a pool that moved to tick 25, and kept the position
\* of the other pool.
C25_RefreshDroppedPosition ==
    /\ ~IsNull(liquidityPositionsCache.data)
    /\ liquidityPositionsCache.lastUpdated >= LIQUIDITY_POSITIONS_CACHE_TTL_MS
    /\ poolTick[PoolA] = 25
    /\ \A i \in DOMAIN CachedPositions : CachedPositions[i].pool # PoolA
    /\ \E i \in DOMAIN CachedPositions : CachedPositions[i].pool = PoolB

(***************************************************************************)
(* Rate limiting: checkRateLimit on the two maps, as the first step of     *)
(* POST /updateVotes, with the timer that prunes the maps.                 *)
(***************************************************************************)
MaxRateTicks == 2

MAX_REQUESTS_PER_IP == 30
MAX_VOTE_UPDATES_PER_ADDRESS == 5
RATE_LIMIT_WINDOW_MS == 60 * 1000

\* getClientIP(request)
ClientIPs == DOMAIN ipRequestCounts

\* `vote_${address}`
VoteKey(address) == "vote_" \o address

\* The check as the mutant makes it: one request more per window.
checkRateLimitOneMore(key, storage, limit, t) ==
    IF IsNull(storage[key]) \/ t > Val(storage[key]).resetTime
        THEN [allowed |-> TRUE,
              storage |-> [storage EXCEPT ![key] =
                  Some([count |-> 1, resetTime |-> t + RATE_LIMIT_WINDOW_MS])]]
    ELSE IF Val(storage[key]).count > limit
        THEN [allowed |-> FALSE, storage |-> storage]
    ELSE [allowed |-> TRUE,
          storage |-> [storage EXCEPT ![key] =
              Some([Val(storage[key]) EXCEPT !.count = @ + 1])]]

\* checkRateLimit(key, storage, limit) at time t: whether the request is
\* admitted, and the map afterwards.
checkRateLimit(key, storage, limit, t) ==
    IF IsNull(storage[key]) \/ t > Val(storage[key]).resetTime
        THEN [allowed |-> TRUE,
              storage |-> [storage EXCEPT ![key] =
                  Some([count |-> 1, resetTime |-> t + RATE_LIMIT_WINDOW_MS])]]
    ELSE IF Val(storage[key]).count >= limit
        THEN [allowed |-> FALSE, storage |-> storage]
    ELSE [allowed |-> TRUE,
          storage |-> [storage EXCEPT ![key] =
              Some([Val(storage[key]) EXCEPT !.count = @ + 1])]]

\* An admitted check: its time and the resetTime of its window.
Admission(key, storage) ==
    [time |-> now, resetTime |-> Val(storage[key]).resetTime]

RateUnchanged ==
    UNCHANGED <<chainBlock, holdersCache, user_votes, vote_change_history,
                pool_info, reqs, response, submitted, accepted, probe>>
    /\ UNCHANGED <<claimVars, positionVars, holderVars, pingVars, watcherVars>>

\* POST /updateVotes, lines 803-815: the check on the client IP, then, if it
\* admits, the check on vote_<address>.
rateLimitedRequest(clientIP, address) ==
    LET ip == checkRateLimit(clientIP, ipRequestCounts, MAX_REQUESTS_PER_IP, now)
        vote == checkRateLimit(VoteKey(address), addressRequestCounts,
                               MAX_VOTE_UPDATES_PER_ADDRESS, now)
    IN  /\ ipRequestCounts' = ip.storage
        /\ addressRequestCounts' = IF ip.allowed THEN vote.storage
                                   ELSE addressRequestCounts
        /\ admitted' =
               [k \in DOMAIN admitted |->
                   IF k = clientIP /\ ip.allowed
                       THEN Append(admitted[k], Admission(clientIP, ip.storage))
                   ELSE IF k = VoteKey(address) /\ ip.allowed /\ vote.allowed
                       THEN Append(admitted[k], Admission(VoteKey(address), vote.storage))
                   ELSE admitted[k]]
        /\ UNCHANGED <<now, ticks>>
        /\ RateUnchanged

\* The timer of lines 103-113: entries whose window has passed are deleted.
rateLimitCleanup ==
    /\ ipRequestCounts' =
           [k \in DOMAIN ipRequestCounts |->
               IF ~IsNull(ipRequestCounts[k]) /\ now > Val(ipRequestCounts[k]).resetTime
                   THEN Null ELSE ipRequestCounts[k]]
    /\ addressRequestCounts' =
           [k \in DOMAIN addressRequestCounts |->
               IF ~IsNull(addressRequestCounts[k])
                  /\ now > Val(addressRequestCounts[k]).resetTime
                   THEN Null ELSE addressRequestCounts[k]]
    /\ UNCHANGED <<now, ticks, admitted>>
    /\ RateUnchanged

RateTick(step) ==
    /\ ticks < MaxRateTicks
    /\ ticks' = ticks + 1
    /\ now' = now + step
    /\ UNCHANGED <<ipRequestCounts, addressRequestCounts, admitted>>
    /\ RateUnchanged

\* The clock steps: to the last millisecond of a window, and past its end.
RateSteps == {RATE_LIMIT_WINDOW_MS - 1, 2}

NextRateLimit ==
    \/ \E clientIP \in ClientIPs, address \in Voters :
          rateLimitedRequest(clientIP, address)
    \/ rateLimitCleanup
    \/ \E step \in RateSteps : RateTick(step)

\* The process has just started on an empty store: both maps are empty.
InitRateLimit ==
    /\ now = 0
    /\ chainBlock = StartBlock
    /\ InitStore
    /\ reqs = [r \in Slots |-> IdleReq]
    /\ response = NoResponse
    /\ submitted = 0
    /\ ticks = 0
    /\ probe = Null
    /\ NoClaims
    /\ ServerIdle

SpecRateLimit == InitRateLimit /\ [][NextRateLimit]_vars

(***************************************************************************)
(* Properties of the rate limiter (specification SpecRateLimit).           *)
(***************************************************************************)
LimitOf(key) ==
    IF key \in ClientIPs THEN MAX_REQUESTS_PER_IP ELSE MAX_VOTE_UPDATES_PER_ADDRESS

\* The checks admitted for a key in the 60 seconds that start at time t.
AdmittedFrom(key, t) ==
    {i \in DOMAIN admitted[key] :
        admitted[key][i].time >= t /\ admitted[key][i].time < t + RATE_LIMIT_WINDOW_MS}

\* The checks admitted for a key in the window that ends at resetTime.
AdmittedInWindow(key, resetTime) ==
    {i \in DOMAIN admitted[key] : admitted[key][i].resetTime = resetTime}

\* C26 as stated: for every key and every interval of 60 seconds,
\* checkRateLimit admits at most `limit` requests for the key.
C26_AtMostLimitPerInterval ==
    \A key \in DOMAIN admitted : \A i \in DOMAIN admitted[key] :
        Cardinality(AdmittedFrom(key, admitted[key][i].time)) <= LimitOf(key)

\* C26, amended: rate limiting uses a 60-second fixed window per key, opened
\* by the first request after the previous window has ended: checkRateLimit
\* admits at most `limit` requests for a key in each window, and therefore
\* at most 2 * limit in any interval of 60 seconds.
C26_AtMostLimitPerWindow ==
    \A key \in DOMAIN admitted : \A i \in DOMAIN admitted[key] :
        /\ Cardinality(AdmittedInWindow(key, admitted[key][i].resetTime))
               <= LimitOf(key)
        /\ admitted[key][i].time >= admitted[key][i].resetTime - RATE_LIMIT_WINDOW_MS
        /\ admitted[key][i].time <= admitted[key][i].resetTime
        /\ Cardinality(AdmittedFrom(key, admitted[key][i].time)) <= 2 * LimitOf(key)

\* The window of the vote key was filled, the last of it in its final
\* millisecond, and the next window has admitted again two milliseconds
\* later.
C26_FullWindowThenNext ==
    \E i, j \in DOMAIN admitted[VoteKey("5Alice")] :
        LET log == admitted[VoteKey("5Alice")]
        IN  /\ Cardinality(AdmittedInWindow(VoteKey("5Alice"), log[i].resetTime))
                   = MAX_VOTE_UPDATES_PER_ADDRESS
            /\ log[j].resetTime > log[i].resetTime
            /\ log[j].time < log[i].time + RATE_LIMIT_WINDOW_MS
            /\ Cardinality(AdmittedFrom(VoteKey("5Alice"), log[i].time))
                   > MAX_VOTE_UPDATES_PER_ADDRESS

(***************************************************************************)
(* The holder snapshot: fetchAllHolders scans the chain over several       *)
(* awaited queries, initializeHoldersCache runs it once at start-up,       *)
(* refreshHoldersCacheIfNeeded runs it from a timer; startServer starts    *)
(* the timers and the HTTP server.  Every await is one action, so scans    *)
(* started by successive timer ticks overlap.                              *)
(***************************************************************************)
MaxHolderTicks == 2

HOLDERS_CACHE_TTL_MS == 1 * 60 * 1000
HOLDERS_REFRESH_CHECK_INTERVAL_MS == 60 * 1000

\* The fetchAllHolders calls that can be in flight together.
ScanSlots == {1, 2}

\* The hotkeys with an entry in TotalHotkeyAlpha for subnet 77, in the order
\* entries() lists them.
StakedHotkeys == <<"5Hk1", "5Hk2">>

\* The chain storage of one hotkey: total_hotkey_alpha in units of 1e9 raw
\* alpha, total_hotkey_shares, and the alpha map (coldkey -> share).
HotkeyStake(total_hotkey_alpha, total_hotkey_shares, alpha) ==
    [total_hotkey_alpha |-> total_hotkey_alpha,
     total_hotkey_shares |-> total_hotkey_shares,
     alpha |-> alpha]

\* The states the chain goes through while the server runs: one staker;
\* then two stakers, one of them on both hotkeys; then shares that divide to
\* a fraction.
ChainTables ==
    <<[h \in {"5Hk1", "5Hk2"} |->
          IF h = "5Hk1" THEN HotkeyStake(100, 100, [c \in {"5Alice"} |-> 100])
          ELSE HotkeyStake(0, 0, [c \in {} |-> 0])],
      [h \in {"5Hk1", "5Hk2"} |->
          IF h = "5Hk1"
              THEN HotkeyStake(100, 100,
                       [c \in {"5Alice", "5Bob"} |-> IF c = "5Alice" THEN 60 ELSE 40])
          ELSE HotkeyStake(50, 100, [c \in {"5Alice"} |-> 100])],
      [h \in {"5Hk1", "5Hk2"} |->
          IF h = "5Hk1"
              THEN HotkeyStake(2, 3,
                       [c \in {"5Alice", "5Bob"} |-> IF c = "5Alice" THEN 1 ELSE 2])
          ELSE HotkeyStake(7, 7, [c \in {"5Bob"} |-> 7])]>>

\* alpha_final = ((alpha_share * total_hotkey_alpha) / total_hotkey_shares)
\* / BigInt(1e9), for a total that is a whole multiple of 1e9: the two
\* truncating divisions are one.
alpha_final(alpha_share, total_hotkey_alpha, total_hotkey_shares) ==
    (alpha_share * total_hotkey_alpha) \div total_hotkey_shares

\* holderBalances after the stakes of one hotkey have been added.
AddStakes(holderBalances, alpha, total_hotkey_alpha, total_hotkey_shares) ==
    [coldkey \in DOMAIN holderBalances \cup DOMAIN alpha |->
        (IF coldkey \in DOMAIN holderBalances THEN holderBalances[coldkey] ELSE 0)
        + (IF coldkey \in DOMAIN alpha
               THEN alpha_final(alpha[coldkey], total_hotkey_alpha,
                                total_hotkey_shares)
           ELSE 0)]

\* processed: one entry per coldkey of holderBalances.
processed(holderBalances) ==
    {[address |-> coldkey, alphaBalanceRaw |-> holderBalances[coldkey]] :
        coldkey \in DOMAIN holderBalances}

\* No call in the slot; outcome tells how the last call of the slot ended.
IdleScan(outcome) ==
    [pc |-> "idle", caller |-> "", startedAt |-> 0, hotkeysWithStake |-> <<>>,
     hotkeysProcessed |-> 0, total_hotkey_shares |-> 0,
     holderBalances |-> [c \in {} |-> 0], outcome |-> outcome]

\* fetchAllHolders at its first await, called by caller at time t.
StartedScan(caller, t) ==
    [IdleScan("") EXCEPT !.pc = "initBittensorConnection", !.caller = caller,
                         !.startedAt = t]

\* holdersCache as the mutant leaves it: whatever the scan returned is
\* stored.
holdersCacheAfterAlways(previous, holders, err, lastUpdated) ==
    [data |-> holders, dataIsNull |-> FALSE, lastUpdated |-> lastUpdated]

\* holdersCache after fetchAllHolders returned [holders, err]: line 158 of
\* initializeHoldersCache (reached only without err) and line 172 of
\* refreshHoldersCacheIfNeeded (if (!err)).
holdersCacheAfter(previous, holders, err, lastUpdated) ==
    IF err THEN previous
    ELSE [data |-> holders, dataIsNull |-> FALSE, lastUpdated |-> lastUpdated]

\* process.exit(code)
exit(srv, code) ==
    [srv EXCEPT !.pc = "exited", !.exitCode = Some(code)]

\* startServer as the mutant runs it: a failed holder build is only logged.
afterInitializeHoldersCacheWarnOnly(srv, initialized) ==
    [srv EXCEPT !.pc = "initializeSubnetHotkeysCache",
                !.holdersInitialized = IF initialized THEN "ok" ELSE "failed"]

\* startServer after `await initializeHoldersCache()`, lines 1665-1670.
afterInitializeHoldersCache(srv, initialized) ==
    IF ~initialized THEN exit([srv EXCEPT !.holdersInitialized = "failed"], 1)
    ELSE [srv EXCEPT !.pc = "initializeSubnetHotkeysCache",
                     !.holdersInitialized = "ok"]

\* The process is running.
Running == server.pc # "exited"

HoldersUnchanged ==
    UNCHANGED <<chainBlock, user_votes, vote_change_history,
                pool_info, reqs, response, submitted, accepted, probe>>
    /\ UNCHANGED <<claimVars, positionVars, rateVars, pingVars, watcherVars>>

\* fetchAllHolders returns [holders, err], or throws (thrown = TRUE), to the
\* caller of the scan in slot s, and the caller runs on to its end or to its
\* next await.
ScanReturns(s, holders, err, thrown) ==
    LET scan == holderScans[s]
        previous == [data |-> holdersCache,
                     dataIsNull |-> holdersCacheState.dataIsNull,
                     lastUpdated |-> holdersCacheState.lastUpdated]
        lastUpdated == IF scan.caller = "initializeHoldersCache" THEN now
                       ELSE scan.startedAt
        after == IF thrown THEN previous
                 ELSE holdersCacheAfter(previous, holders, err, lastUpdated)
    IN  /\ holdersCache' = after.data
        /\ holdersCacheState' = [dataIsNull |-> after.dataIsNull,
                                 lastUpdated |-> after.lastUpdated]
        /\ scanResults' = IF thrown \/ err THEN scanResults
                          ELSE scanResults \cup {holders}
        /\ holderScans' = [holderScans EXCEPT ![s] =
               IdleScan(IF thrown THEN "thrown" ELSE IF err THEN "err" ELSE "ok")]
        /\ server' =
               IF scan.caller # "initializeHoldersCache" THEN server
               ELSE IF thrown
                   THEN exit([server EXCEPT !.holdersInitialized = "failed"], 1)
               ELSE afterInitializeHoldersCache(server, ~err)

\* The scan moves on to the next hotkey, or returns [processed, null].
NextHotkey(s, holderBalances) ==
    LET scan == holderScans[s]
    IN  IF scan.hotkeysProcessed < Len(scan.hotkeysWithStake)
            THEN /\ holderScans' = [holderScans EXCEPT ![s] =
                        [scan EXCEPT !.pc = "totalHotkeyShares",
                                     !.hotkeysProcessed = @ + 1,
                                     !.holderBalances = holderBalances]]
                 /\ UNCHANGED <<holdersCache, holdersCacheState, scanResults,
                                server>>
        ELSE ScanReturns(s, processed(holderBalances), FALSE, FALSE)

\* api = await initBittensorConnection(), in try/catch.
ScanConnect(s) ==
    /\ Running
    /\ holderScans[s].pc = "initBittensorConnection"
    /\ \/ /\ holderScans' = [holderScans EXCEPT ![s].pc = "totalHotkeyAlpha"]
          /\ UNCHANGED <<holdersCache, holdersCacheState, scanResults, server>>
       \/ ScanReturns(s, {}, TRUE, FALSE)
    /\ UNCHANGED <<now, ticks, chainStakes>>
    /\ HoldersUnchanged

\* await api.query.subtensorModule.totalHotkeyAlpha.entries(), in try/catch.
ScanEntries(s) ==
    /\ Running
    /\ holderScans[s].pc = "totalHotkeyAlpha"
    /\ \/ /\ holderScans' = [holderScans EXCEPT ![s] =
                 [holderScans[s] EXCEPT
                     !.pc = "subnetTAO",
                     !.hotkeysWithStake =
                         [i \in DOMAIN StakedHotkeys |->
                             [hotkey |-> StakedHotkeys[i],
                              total_hotkey_alpha_raw |->
                                  chainStakes[StakedHotkeys[i]].total_hotkey_alpha]]]]
          /\ UNCHANGED <<holdersCache, holdersCacheState, scanResults, server>>
       \/ ScanReturns(s, {}, TRUE, FALSE)
    /\ UNCHANGED <<now, ticks, chainStakes>>
    /\ HoldersUnchanged

\* await subnetTAO(netuid), await subnetAlphaIn(netuid): not in try/catch.
ScanSubnet(s) ==
    /\ Running
    /\ holderScans[s].pc = "subnetTAO"
    /\ \/ NextHotkey(s, holderScans[s].holderBalances)
       \/ ScanReturns(s, {}, FALSE, TRUE)
    /\ UNCHANGED <<now, ticks, chainStakes>>
    /\ HoldersUnchanged

\* await totalHotkeyShares(hotkey, netuid): not in try/catch; a hotkey
\* without shares is skipped.
ScanShares(s) ==
    /\ Running
    /\ holderScans[s].pc = "totalHotkeyShares"
    /\ LET scan == holderScans[s]
           hotkey == scan.hotkeysWithStake[scan.hotkeysProcessed].hotkey
           total_hotkey_shares == chainStakes[hotkey].total_hotkey_shares
       IN  \/ IF total_hotkey_shares = 0
                  THEN NextHotkey(s, scan.holderBalances)
              ELSE /\ holderScans' = [holderScans EXCEPT ![s] =
                          [scan EXCEPT !.pc = "alpha",
                                       !.total_hotkey_shares = total_hotkey_shares]]
                   /\ UNCHANGED <<holdersCache, holdersCacheState, scanResults,
                                  server>>
           \/ ScanReturns(s, {}, FALSE, TRUE)
    /\ UNCHANGED <<now, ticks, chainStakes>>
    /\ HoldersUnchanged

\* await alpha.entries(hotkey): not in try/catch; the stakes are added to
\* holderBalances.
ScanAlpha(s) ==
    /\ Running
    /\ holderScans[s].pc = "alpha"
    /\ LET scan == holderScans[s]
           entry == scan.hotkeysWithStake[scan.hotkeysProcessed]
       IN  \/ NextHotkey(s, AddStakes(scan.holderBalances,
                                      chainStakes[entry.hotkey].alpha,
                                      entry.total_hotkey_alpha_raw,
                                      scan.total_hotkey_shares))
           \/ ScanReturns(s, {}, FALSE, TRUE)
    /\ UNCHANGED <<now, ticks, chainStakes>>
    /\ HoldersUnchanged

\* The slot a new call is put in: the lowest one that is free.
FreeScanSlot ==
    LET free == {s \in ScanSlots : holderScans[s].pc = "idle"}
    IN  IF free = {} THEN 0 ELSE CHOOSE s \in free : \A other \in free : s <= other

\* The timer of startPeriodicHoldersRefresh fires: refreshHoldersCacheIfNeeded
\* up to its await.
refreshHoldersCacheIfNeeded(s) ==
    /\ Running
    /\ server.holdersRefresh
    /\ now >= server.refreshDue
    /\ s = FreeScanSlot
    /\ server' = [server EXCEPT !.refreshDue =
                      @ + HOLDERS_REFRESH_CHECK_INTERVAL_MS]
    /\ holderScans' =
           IF now - holdersCacheState.lastUpdated > HOLDERS_CACHE_TTL_MS
               THEN [holderScans EXCEPT ![s] =
                        StartedScan("refreshHoldersCacheIfNeeded", now)]
           ELSE holderScans
    /\ UNCHANGED <<now, ticks, chainStakes, holdersCache, holdersCacheState,
                   scanResults>>
    /\ HoldersUnchanged

\* await initializeSubnetHotkeysCache(): a failure is logged.
initializeSubnetHotkeysCache ==
    /\ server.pc = "initializeSubnetHotkeysCache"
    /\ \E hkInit \in BOOLEAN :
           server' = [server EXCEPT
               !.pc = "backfill",
               !.hotkeysInitialized = IF hkInit THEN "ok" ELSE "failed"]
    /\ UNCHANGED <<now, ticks, chainStakes, holdersCache, holdersCacheState,
                   scanResults, holderScans>>
    /\ HoldersUnchanged

\* The backfill of missing pool information, in try/catch, then
\* startPeriodicHoldersRefresh(), startPeriodicSubnetHotkeysRefresh() and
\* app.listen(3000), which throws when the port cannot be bound.
startListening ==
    /\ server.pc = "backfill"
    /\ \E bound \in BOOLEAN :
           LET started == [server EXCEPT
                   !.holdersRefresh = TRUE,
                   !.hotkeysRefresh = TRUE,
                   !.refreshDue = now + HOLDERS_REFRESH_CHECK_INTERVAL_MS]
           IN  server' = IF bound
                             THEN [started EXCEPT !.pc = "listening",
                                                  !.listening = TRUE]
                         ELSE exit(started, 1)
    /\ UNCHANGED <<now, ticks, chainStakes, holdersCache, holdersCacheState,
                   scanResults, holderScans>>
    /\ HoldersUnchanged

\* Stake moves on the chain: the next of its states.
MoveStake(i) ==
    /\ Running
    /\ chainStakes = ChainTables[i]
    /\ chainStakes' = ChainTables[i + 1]
    /\ UNCHANGED <<now, ticks, holdersCache, holdersCacheState, scanResults,
                   holderScans, server>>
    /\ HoldersUnchanged

\* Date.now() advances.
HoldersTick(step) ==
    /\ Running
    /\ ticks < MaxHolderTicks
    /\ ticks' = ticks + 1
    /\ now' = now + step
    /\ UNCHANGED <<chainStakes, holdersCache, holdersCacheState, scanResults,
                   holderScans, server>>
    /\ HoldersUnchanged

\* The clock steps: the interval of the timer, and a millisecond more.
HolderSteps == {HOLDERS_REFRESH_CHECK_INTERVAL_MS,
                HOLDERS_REFRESH_CHECK_INTERVAL_MS + 1}

\* The process has been started: holdersCache = { data: null, lastUpdated: 0 }
\* and startServer awaits initializeHoldersCache, whose fetchAllHolders is at
\* its first await.
InitHolders ==
    /\ now = 1
    /\ chainBlock = StartBlock
    /\ user_votes = [a \in Addresses |-> Null]
    /\ vote_change_history = <<>>
    /\ pool_info = {}
    /\ accepted = [a \in Addresses |-> Null]
    /\ reqs = [r \in Slots |-> IdleReq]
    /\ response = NoResponse
    /\ submitted = 0
    /\ ticks = 0
    /\ probe = Null
    /\ NoClaims
    /\ PositionsIdle
    /\ RateIdle
    /\ PingIdle
    /\ WatcherIdle
    /\ holdersCache = {}
    /\ holdersCacheState = [dataIsNull |-> TRUE, lastUpdated |-> 0]
    /\ chainStakes = ChainTables[1]
    /\ holderScans = [s \in ScanSlots |->
           IF s = 1 THEN StartedScan("initializeHoldersCache", now)
           ELSE IdleScan("")]
    /\ scanResults = {}
    /\ server = [pc |-> "initializeHoldersCache", exitCode |-> Null,
                 listening |-> FALSE, holdersRefresh |-> FALSE,
                 hotkeysRefresh |-> FALSE, holdersInitialized |-> "pending",
                 hotkeysInitialized |-> "pending", refreshDue |-> 0]

NextHolders ==
    \/ \E s \in ScanSlots : ScanConnect(s)
    \/ \E s \in ScanSlots : ScanEntries(s)
    \/ \E s \in ScanSlots : ScanSubnet(s)
    \/ \E s \in ScanSlots : ScanShares(s)
    \/ \E s \in ScanSlots : ScanAlpha(s)
    \/ \E s \in ScanSlots : refreshHoldersCacheIfNeeded(s)
    \/ initializeSubnetHotkeysCache
    \/ startListening
    \/ \E i \in 1..(Len(ChainTables) - 1) : MoveStake(i)
    \/ \E step \in HolderSteps : HoldersTick(step)

SpecHolders == InitHolders /\ [][NextHolders]_vars

(***************************************************************************)
(* Properties of the holder snapshot and of start-up (specification        *)
(* SpecHolders).                                                           *)
(***************************************************************************)
\* A fetchAllHolders call returns an error, or throws, in this step.
FailedScanStep ==
    \E s \in ScanSlots :
        /\ holderScans[s].pc # "idle"
        /\ holderScans'[s].pc = "idle"
        /\ holderScans'[s].outcome \in {"err", "thrown"}

\* C27: the holder snapshot is replaced atomically: once built, what
\* getHolders returns is always the complete result of one successful chain
\* scan, and a scan that fails leaves the snapshot and its lastUpdated as
\* they were.
C27_SnapshotReplacedAtomically ==
    /\ [](~holdersCacheState.dataIsNull => holdersCache \in scanResults)
    /\ [][FailedScanStep => UNCHANGED <<holdersCache, holdersCacheState>>]_vars

\* C27, the case: a refresh has replaced the snapshot of start-up by a
\* different one, and a later refresh has failed in the middle of its scan.
C27_RefreshFailedAfterReplacement ==
    /\ server.listening
    /\ Cardinality(scanResults) >= 2
    /\ \E s \in ScanSlots : holderScans[s].outcome = "thrown"
    /\ holdersCache \in scanResults
    /\ holdersCacheState.lastUpdated > HOLDERS_REFRESH_CHECK_INTERVAL_MS

\* C28: the HTTP server listens, and the periodic refreshes run, only after
\* the first holder snapshot has been built; a failed build ends the process
\* with exit code 1 before it listens, and for good; after
\* initializeSubnetHotkeysCache, failed or not, startServer goes on to the
\* backfill.
C28_StartupOrdering ==
    /\ [](/\ (server.listening \/ server.holdersRefresh \/ server.hotkeysRefresh)
                => /\ server.holdersInitialized = "ok"
                   /\ ~holdersCacheState.dataIsNull
          /\ server.holdersInitialized = "failed"
                => /\ server.pc = "exited"
                   /\ server.exitCode = Some(1)
                   /\ ~server.listening
                   /\ ~server.holdersRefresh
                   /\ ~server.hotkeysRefresh)
    /\ [][/\ server.pc = "exited" => UNCHANGED server
          /\ (server.pc = "initializeSubnetHotkeysCache" /\ server' # server)
                => server'.pc = "backfill"]_vars

\* C28, the case: the roster could not be initialized and the server
\* listens.
C28_ListeningWithoutRoster ==
    /\ server.listening
    /\ server.hotkeysInitialized = "failed"
    /\ server.holdersRefresh

(***************************************************************************)
(* POST /ping: a validator reports its block and its version.  The version *)
(* strings are tuples of characters; message.split('|') is the tuple of    *)
(* its parts.  The handler awaits fetchCurrentBittensorBlock once.         *)
(***************************************************************************)
MaxPings == 2

MAX_REQUESTS_PER_ADDRESS == 10

Digits == {"0", "1", "2", "3", "4", "5", "6", "7", "8", "9"}

\* The value of one decimal digit.
DigitValue(c) ==
    CASE c = "0" -> 0 [] c = "1" -> 1 [] c = "2" -> 2 [] c = "3" -> 3
      [] c = "4" -> 4 [] c = "5" -> 5 [] c = "6" -> 6 [] c = "7" -> 7
      [] c = "8" -> 8 [] c = "9" -> 9

\* version.split('.'): the pieces between the dots, from character i on,
\* current being the piece under construction.
RECURSIVE SplitOnDots(_, _, _)
SplitOnDots(version, i, current) ==
    IF i > Len(version) THEN <<current>>
    ELSE IF version[i] = "." THEN <<current>> \o SplitOnDots(version, i + 1, <<>>)
    ELSE SplitOnDots(version, i + 1, Append(current, version[i]))

\* Number(part) for a piece of digits and letters: the empty string is 0,
\* digits are read in base ten, anything else is NaN.
RECURSIVE DecimalValue(_, _)
DecimalValue(part, i) ==
    IF i = 0 THEN 0 ELSE 10 * DecimalValue(part, i - 1) + DigitValue(part[i])

NumberOfPart(part) ==
    IF \A i \in DOMAIN part : part[i] \in Digits
        THEN Num(DecimalValue(part, Len(part)))
    ELSE NaN

\* parseVersion: the three numbers, or null where it throws.
parseVersion(version) ==
    LET parts == [i \in DOMAIN SplitOnDots(version, 1, <<>>) |->
                     NumberOfPart(SplitOnDots(version, 1, <<>>)[i])]
    IN  IF Len(parts) # 3 \/ \E i \in DOMAIN parts : IsNaN(parts[i]) THEN Null
        ELSE Some(<<parts[1].val, parts[2].val, parts[3].val>>)

NonMasterBranchMessage ==
    "Client detected to be running a branch different from the master branch"

\* isVersionCompatible as the mutant has it: a client ahead of the server
\* is turned away.
isVersionCompatibleNotAhead(clientVersion, serverVersion) ==
    LET client == parseVersion(clientVersion)
        srv == parseVersion(serverVersion)
    IN  IF IsNull(client) \/ IsNull(srv)
            THEN [compatible |-> FALSE, message |-> Null]
        ELSE IF Val(client)[1] # Val(srv)[1] \/ Val(client)[2] # Val(srv)[2]
            THEN [compatible |-> FALSE, message |-> Null]
        ELSE [compatible |-> Val(client)[3] <= Val(srv)[3], message |-> Null]

\* isVersionCompatible(clientVersion, serverVersion): [compatible, message].
isVersionCompatible(clientVersion, serverVersion) ==
    LET client == parseVersion(clientVersion)
        srv == parseVersion(serverVersion)
    IN  IF IsNull(client) \/ IsNull(srv)
            THEN [compatible |-> FALSE, message |-> Null]
        ELSE IF Val(client)[1] # Val(srv)[1] \/ Val(client)[2] # Val(srv)[2]
            THEN [compatible |-> FALSE, message |-> Null]
        ELSE IF Val(client)[3] > Val(srv)[3]
            THEN [compatible |-> TRUE, message |-> Some(NonMasterBranchMessage)]
        ELSE [compatible |-> Val(client)[3] <= Val(srv)[3], message |-> Null]

\* /^\d+\.\d+\.\d+$/.test(versionStr)
VersionFormatOk(versionStr) ==
    LET parts == SplitOnDots(versionStr, 1, <<>>)
    IN  /\ Len(parts) = 3
        /\ \A i \in DOMAIN parts :
               /\ Len(parts[i]) > 0
               /\ \A j \in DOMAIN parts[i] : parts[i][j] \in Digits

\* `ping_${address}` for the hotkeys of the model.
PingKey(address) ==
    IF address = HotkeyA THEN "ping_5Ab" ELSE "ping_5Ef"

\* The characters of the version strings sent.
VersionChars == {"0", "1", "2", "."}

\* The version strings sent: every string of five of these characters, and
\* some with a number of two digits, a leading zero, a letter, or another
\* number of parts.
VersionInputs ==
    [1..5 -> VersionChars]
    \cup {<<"1", ".", "2", ".", "1", "0">>, <<"0", "1", ".", "2", ".", "1">>,
          <<"1", ".", "1", "2", ".", "1">>, <<"1", ".", "2", ".", "x">>,
          <<"1", ".", "2">>, <<"1", ".", "2", ".", "1", ".", "0">>, <<>>}

\* The contents the VERSION file may have: three numbers.
ServerVersions ==
    {<<"1", ".", "2", ".", "1">>, <<"1", ".", "2", ".", "0">>,
     <<"2", ".", "1", ".", "2">>}

\* The body of a ping of validator HotkeyA, signed by it, carrying the
\* block blockNumStr and the version versionStr.
HonestPing(blockNumStr, versionStr) ==
    [address |-> HotkeyA,
     signature |-> SignatureOf(HotkeyA, <<blockNumStr, versionStr>>),
     message |-> <<blockNumStr, versionStr>>]

\* The pings received: honest ones with every version, and pings with one
\* thing different.
PingInputs ==
    {HonestPing("20", versionStr) : versionStr \in VersionInputs}
    \cup {HonestPing(blockNumStr, <<"1", ".", "2", ".", "1">>) :
             blockNumStr \in {"9", "10", "21", "Infinity", "abc"}}
    \cup {[HonestPing("20", <<"1", ".", "2", ".", "1">>) EXCEPT !.address = HotkeyE],
          [HonestPing("20", <<"1", ".", "2", ".", "1">>) EXCEPT
              !.signature = SignatureOf(HotkeyC, @.message)],
          [HonestPing("20", <<"1", ".", "2", ".", "1">>) EXCEPT
              !.message = <<"20">>]}

\* { success: false, error }
PingFailure(msg) ==
    [success |-> FALSE, error |-> msg, message |-> "", serverVersion |-> Null,
     clientVersion |-> Null, versionCompatible |-> Null, versionMessage |-> Null]

\* The two responses that carry the versions, lines 1543-1562.
PingVersionResponse(versionStr, serverVersion, check) ==
    [success |-> check.compatible,
     error |-> IF check.compatible THEN ""
               ELSE "Version incompatible - update required",
     message |-> IF check.compatible THEN "Ping successful" ELSE "",
     serverVersion |-> Some(serverVersion),
     clientVersion |-> Some(versionStr),
     versionCompatible |-> Some(check.compatible),
     versionMessage |-> check.message]

\* The checks of the handler after the rate limits and before its await:
\* the error, or "" when all pass.
PingArrivalError(body, subnetHotkeys) ==
    IF body.address \notin subnetHotkeys THEN "Invalid validator hotkey"
    ELSE IF ~verifySignature(body.message, body.signature, body.address)
        THEN "Authentication failed"
    ELSE IF Len(body.message) # 2 THEN "Invalid message format"
    ELSE IF IsNaN(Number(body.message[1])) THEN "Invalid block number"
    ELSE IF ~VersionFormatOk(body.message[2]) THEN "Invalid version format"
    ELSE ""

PingUnchanged ==
    UNCHANGED <<now, chainBlock, holdersCache, user_votes, vote_change_history,
                pool_info, reqs, response, submitted, ticks, accepted, probe>>
    /\ UNCHANGED <<claimVars, positionVars, holderVars, watcherVars, admitted, VERSION>>

\* POST /ping up to `await fetchCurrentBittensorBlock()`: the rate limits on
\* the client IP and on ping_<address>, the roster, the signature, the
\* format of the message.
ping(clientIP, body) ==
    /\ pings < MaxPings
    /\ IsNull(pingCall)
    /\ pings' = pings + 1
    /\ LET ip == checkRateLimit(clientIP, ipRequestCounts, MAX_REQUESTS_PER_IP, now)
           addr == checkRateLimit(PingKey(body.address), addressRequestCounts,
                                  MAX_REQUESTS_PER_ADDRESS, now)
           error == PingArrivalError(body, SubnetHotkeys)
       IN  /\ ipRequestCounts' = ip.storage
           /\ addressRequestCounts' = IF ip.allowed THEN addr.storage
                                      ELSE addressRequestCounts
           /\ IF ~ip.allowed \/ ~addr.allowed
                  THEN /\ pingResponse' = Some(PingFailure("Too many requests"))
                       /\ UNCHANGED pingCall
              ELSE IF error # ""
                  THEN /\ pingResponse' = Some(PingFailure(error))
                       /\ UNCHANGED pingCall
              ELSE /\ pingCall' = Some(body)
                   /\ UNCHANGED pingResponse
    /\ PingUnchanged

\* POST /ping from the answer of fetchCurrentBittensorBlock on: the block
\* window, then the version check against VERSION.
pingFetchBlock ==
    /\ ~IsNull(pingCall)
    /\ pingCall' = Null
    /\ LET body == Val(pingCall)
           blockNumber == Number(body.message[1])
           versionStr == body.message[2]
       IN  \E blockErr \in BOOLEAN :
               pingResponse' = Some(
                   IF blockErr THEN PingFailure("Failed to fetch current block")
                   ELSE IF blockNumber.kind = "Infinity"
                           \/ blockNumber.val > chainBlock
                       THEN PingFailure("Invalid block number")
                   ELSE IF blockNumber.val < chainBlock - 10
                       THEN PingFailure("Block number too old")
                   ELSE PingVersionResponse(versionStr, VERSION,
                            isVersionCompatible(versionStr, VERSION)))
    /\ UNCHANGED <<pings, ipRequestCounts, addressRequestCounts>>
    /\ PingUnchanged

\* The server runs with the version of its VERSION file; the validator may
\* have used up its pings of the minute.
InitPing ==
    /\ now = 0
    /\ chainBlock = StartBlock
    /\ InitStore
    /\ reqs = [r \in Slots |-> IdleReq]
    /\ response = NoResponse
    /\ submitted = 0
    /\ ticks = 0
    /\ probe = Null
    /\ NoClaims
    /\ PositionsIdle
    /\ HoldersIdle
    /\ WatcherIdle
    /\ ipRequestCounts = [k \in {"10.0.0.1"} |-> Null]
    /\ \E count \in {0, MAX_REQUESTS_PER_ADDRESS} :
           addressRequestCounts =
               [k \in {"vote_5Alice", "ping_5Ab", "ping_5Ef"} |->
                   IF k = "ping_5Ab" /\ count > 0
                       THEN Some([count |-> count,
                                  resetTime |-> now + RATE_LIMIT_WINDOW_MS])
                   ELSE Null]
    /\ admitted = [k \in {"10.0.0.1", "vote_5Alice"} |-> <<>>]
    /\ VERSION \in ServerVersions
    /\ pings = 0
    /\ pingCall = Null
    /\ pingResponse = Null

NextPing ==
    \/ \E clientIP \in ClientIPs, body \in PingInputs : ping(clientIP, body)
    \/ pingFetchBlock

SpecPing == InitPing /\ [][NextPing]_vars

(***************************************************************************)
(* Properties of the version check (specification SpecPing).               *)
(***************************************************************************)
\* The number a run of digits stands for, read from the left.
RECURSIVE StatedNumber(_)
StatedNumber(digits) ==
    IF digits = <<>> THEN 0
    ELSE 10 * StatedNumber(SubSeq(digits, 1, Len(digits) - 1))
         + DigitValue(digits[Len(digits)])

\* The positions of the dots of a version string.
DotsOf(version) == {i \in DOMAIN version : version[i] = "."}

\* major, minor and patch of a version of the form digits.digits.digits.
StatedVersion(version) ==
    LET first == CHOOSE i \in DotsOf(version) : \A j \in DotsOf(version) : i <= j
        second == CHOOSE i \in DotsOf(version) : \A j \in DotsOf(version) : i >= j
    IN  [major |-> StatedNumber(SubSeq(version, 1, first - 1)),
         minor |-> StatedNumber(SubSeq(version, first + 1, second - 1)),
         patch |-> StatedNumber(SubSeq(version, second + 1, Len(version)))]

\* The last ping was answered by the version check.
VersionChecked ==
    /\ ~IsNull(pingResponse)
    /\ ~IsNull(Val(pingResponse).versionCompatible)

\* C29: a ping that reaches the version check succeeds exactly when the
\* client's major and minor equal the server's; it then carries the
\* non-master-branch message when the client's patch is above the server's
\* and no message otherwise.
C29_VersionCompatibility ==
    VersionChecked =>
        LET answer == Val(pingResponse)
            client == StatedVersion(Val(answer.clientVersion))
            srv == StatedVersion(Val(answer.serverVersion))
            sameRelease == client.major = srv.major /\ client.minor = srv.minor
        IN  /\ answer.success = sameRelease
            /\ Val(answer.versionCompatible) = sameRelease
            /\ (sameRelease /\ client.patch > srv.patch)
                   => answer.versionMessage = Some(NonMasterBranchMessage)
            /\ (sameRelease /\ client.patch <= srv.patch)
                   => answer.versionMessage = Null
            /\ ~sameRelease => answer.versionMessage = Null

\* C29, the case: a client two digits of patch ahead of the server, on the
\* same major and minor, was answered with success and the message.
C29_ClientAhead ==
    /\ VersionChecked
    /\ Val(Val(pingResponse).clientVersion) = <<"1", ".", "2", ".", "1", "0">>
    /\ Val(Val(pingResponse).serverVersion) = <<"1", ".", "2", ".", "1">>
    /\ Val(pingResponse).success
    /\ Val(pingResponse).versionMessage = Some(NonMasterBranchMessage)

(***************************************************************************)
(* The two checkVoteCooldown calls of POST /updateVotes (specification     *)
(* SpecSequential).                                                        *)
(***************************************************************************)
\* The second checkVoteCooldown call of request r returns in this step:
\* the handler either answers at once or goes on to recordVoteChange.
SecondCallReturns(r) ==
    /\ reqs[r].pc \in {"check2_vote", "check2_hist"}
    /\ reqs'[r].pc \in {"idle", "record_get"}

\* The duration the second call returns: the one handed to
\* recordVoteChange, or null when recordVoteChange is skipped.
SecondCallDuration(r) ==
    IF reqs'[r].pc = "record_get" THEN reqs'[r].recordDuration ELSE Null

\* C30: the duration returned by the second checkVoteCooldown call of an
\* accepted vote change, made after upsertUserVotes, equals the duration
\* returned by the first call, made before it.
C30_SecondCallReturnsSameDuration ==
    [][\A r \in Slots :
          SecondCallReturns(r) => SecondCallDuration(r) = reqs[r].cooldownDuration]_vars

(***************************************************************************)
(* checkVoteCooldownStatus, the query behind GET /voteCooldown/:address,   *)
(* applied to the latest history row of the probe at the probe's clock.    *)
(* A duration is displayed as minutes, or as hours and minutes from one    *)
(* hour on; the display is the sequence of the pieces of the template.     *)
(***************************************************************************)
\* Math.ceil(nextCooldownDuration / (1000 * 60)) and the template around it.
nextCooldownDisplay(nextCooldownDuration) ==
    LET nextCooldownMinutes == (nextCooldownDuration + 60000 - 1) \div 60000
    IN  IF nextCooldownMinutes >= 60
            THEN <<nextCooldownMinutes \div 60, "h ", nextCooldownMinutes % 60, "m">>
        ELSE <<nextCooldownMinutes, "m">>

\* checkVoteCooldownStatus past its query: the fields of the status.
CooldownStatus(cooldownRecord, t) ==
    IF IsNull(cooldownRecord)
        THEN [active |-> FALSE, remainingTime |-> Null, changeCount |-> 0,
              nextCooldownDuration |-> <<72, "m">>]
    ELSE IF t < Val(cooldownRecord).cooldown_until
        THEN [active |-> TRUE,
              remainingTime |-> Some(Val(cooldownRecord).cooldown_until - t),
              changeCount |-> Val(cooldownRecord).change_count,
              nextCooldownDuration |->
                  nextCooldownDisplay(
                      calculateCooldownDuration(Val(cooldownRecord).change_count))]
    ELSE [active |-> FALSE, remainingTime |-> Null,
          changeCount |-> Val(cooldownRecord).change_count,
          nextCooldownDuration |->
              nextCooldownDisplay(
                  calculateCooldownDuration(Val(cooldownRecord).change_count))]

\* GET /voteCooldown/:address for the voter of the probe: the answer is
\* kept in response.
checkVoteCooldownStatus ==
    /\ ~IsNull(probe)
    /\ response = NoResponse
    /\ response' = [returned |-> TRUE, success |-> TRUE,
                    cooldownStatus |-> CooldownStatus(Val(probe).cooldownRecord,
                                                      Val(probe).t)]
    /\ UNCHANGED <<now, chainBlock, holdersCache, user_votes, vote_change_history,
                   pool_info, reqs, submitted, ticks, accepted, probe>>
    /\ UNCHANGED claimVars
    /\ UNCHANGED serverVars

NextStatus ==
    \/ checkVoteCooldown
    \/ recordVoteChange
    \/ checkVoteCooldownStatus

SpecStatus == InitCE /\ [][NextStatus]_vars

(***************************************************************************)
(* The status query against the engine (specification SpecStatus).         *)
(***************************************************************************)
\* The milliseconds a display stands for.
DisplayedMs(display) ==
    IF Len(display) = 4 THEN (display[1] * 60 + display[3]) * 60000
    ELSE display[1] * 60000

\* The first instant from t on at which the cooldown of the row is over.
CooldownOver(cooldownRecord, t) ==
    IF IsNull(cooldownRecord) THEN t
    ELSE Max(t, Val(cooldownRecord).cooldown_until)

\* C31: the next-change duration the status query reports is the duration
\* checkVoteCooldown applies to a change of that voter made at the same
\* instant, or, while the cooldown is active, at the instant it ends; also
\* for a latest row older than the 24 h reset window.
C31_StatusReportsEngineDuration ==
    (~IsNull(probe) /\ response # NoResponse) =>
        LET p == Val(probe)
            decision == CooldownDecision(p.cooldownRecord,
                                         CooldownOver(p.cooldownRecord, p.t))
        IN  DisplayedMs(response.cooldownStatus.nextCooldownDuration)
                = Val(decision.cooldownDuration)

(***************************************************************************)
(* The hourly timer that runs cleanupExpiredCooldowns, beside requests of  *)
(* the voter handled one at a time, on stores that hold change rows as     *)
(* recordVoteChange writes them: a change at time 0 that was the voter's   *)
(* first, second, third or fourth within 24 h, or a first change at time 0 *)
(* and a second one at the instant the first cooldown ended.  The process  *)
(* is observed from that instant on.                                       *)
(***************************************************************************)
MaxCleanupTicks == 2
MaxCleanupRequests == 1

\* The rows of the store, as recordVoteChange wrote them.
CleanupRow(t, effectiveChangeCount) ==
    ChangeRow("5Alice", Val(VoteOf(PoolB, 0)).pools, Val(VoteOf(PoolA, 0)).pools,
              t, calculateCooldownDuration(effectiveChangeCount),
              effectiveChangeCount + 1)

CleanupHistories ==
    {<<CleanupRow(0, c)>> : c \in 0..FREQUENT_CHANGE_THRESHOLD}
        \cup {<<CleanupRow(0, 0), CleanupRow(VOTE_CHANGE_COOLDOWN_MS, 1)>>}

InitCleanup ==
    /\ now = VOTE_CHANGE_COOLDOWN_MS
    /\ chainBlock = StartBlock
    /\ user_votes = [a \in Addresses |->
           IF a \in Voters THEN VoteOf(PoolA, StartBlock - BLOCK_WINDOW) ELSE Null]
    /\ vote_change_history \in CleanupHistories
    /\ pool_info = {PoolA, PoolB}
    /\ holdersCache = HolderSnapshot
    /\ accepted = [a \in Addresses |-> Null]
    /\ reqs = [r \in Slots |-> IdleReq]
    /\ response = NoResponse
    /\ submitted = 0
    /\ ticks = 0
    /\ probe = Null
    /\ NoClaims
    /\ ServerIdle

\* What the store would hold had the timer never run.
Unpruned ==
    IF IsNull(probe) THEN vote_change_history ELSE Val(probe).unpruned

\* setInterval(async () => { await cleanupExpiredCooldowns(db) }, 1 h): the
\* DELETE, with the run noted in probe: its time, the rows it found, and
\* the rows the store would hold without any run.
cleanupTimer ==
    /\ vote_change_history' = ExpiredRowsDeleted(vote_change_history, now)
    /\ probe' = Some([stage |-> "cleanup", t |-> now,
                      before |-> vote_change_history, unpruned |-> Unpruned])
    /\ UNCHANGED <<now, chainBlock, holdersCache, user_votes,
                   pool_info, reqs, response, submitted, ticks, accepted>>
    /\ UNCHANGED claimVars
    /\ UNCHANGED serverVars

CleanupTick ==
    /\ ticks < MaxCleanupTicks
    /\ \E step \in TickSteps : now' = now + step
    /\ ticks' = ticks + 1
    /\ UNCHANGED <<chainBlock, holdersCache, user_votes, vote_change_history,
                   pool_info, reqs, response, submitted, accepted, probe>>
    /\ UNCHANGED claimVars
    /\ UNCHANGED serverVars

NextCleanup ==
    \/ \E address \in Voters, poolEntries \in VoteInputs :
        submitted < MaxCleanupRequests
        /\ Receive(1, address, poolEntries, chainBlock)
    \/ ReadVote(1)
    \/ CheckVote(1)
    \/ CheckHist(1)
    \/ Status(1)
    \/ UpsertGet(1)
    \/ UpsertRun(1)
    \/ CleanupTick
    \/ cleanupTimer

SpecCleanup == InitCleanup /\ [][NextCleanup]_vars

(***************************************************************************)
(* Properties of the cleanup (specification SpecCleanup).                  *)
(***************************************************************************)
\* The rows of a history.
Rows(history) == {history[i] : i \in DOMAIN history}

\* The voter is in active cooldown at time t whatever latest row is read.
InActiveCooldown(history, ss58Address, t) ==
    \A cooldownRecord \in LatestRecords(history, ss58Address) :
        CooldownActive(cooldownRecord, t)

\* C32: a run of cleanupExpiredCooldowns at time t removes exactly the rows
\* with cooldown_until < t and keeps the others in their order; a voter who
\* was in active cooldown when it ran is in active cooldown after it, and
\* checkVoteCooldown still refuses them.
C32_CleanupDeletesExactlyExpired ==
    (~IsNull(probe) /\ Val(probe).t = now) =>
        LET run == Val(probe)
        IN  /\ Rows(vote_change_history) =
                   {row \in Rows(run.before) : row.cooldown_until >= run.t}
            /\ Len(vote_change_history) = Cardinality(Rows(vote_change_history))
            /\ \A i, j \in DOMAIN vote_change_history :
                   i < j => vote_change_history[i].change_timestamp
                                <= vote_change_history[j].change_timestamp
            /\ \A a \in Addresses :
                   InActiveCooldown(run.before, a, run.t) =>
                       /\ InActiveCooldown(vote_change_history, a, run.t)
                       /\ \A cooldownRecord \in LatestRecords(vote_change_history, a) :
                              ~CooldownDecision(cooldownRecord, run.t).allowed

\* Witness of C32: a run removed an expired row and left the row of the
\* voter's running cooldown, and the change the voter sent afterwards was
\* refused.
C32_ActiveRowSurvivesCleanup ==
    /\ ~IsNull(probe)
    /\ Len(vote_change_history) < Len(Val(probe).before)
    /\ InActiveCooldown(Val(probe).before, "5Alice", Val(probe).t)
    /\ response.returned
    /\ response.arrivedAt >= Val(probe).t
    /\ response.result.error = "Vote change blocked by cooldown"

\* A change of the voter that passed checkVoteCooldown, sent when the
\* cooldown of the latest row the store would hold without the timer had
\* ended, and answered within 24 h of that row's change.
ChangeWhileCooled(cooldownRecord) ==
    /\ response.returned
    /\ response.hasVoteChange
    /\ ~IsNull(response.cooldownDuration)
    /\ ~IsNull(cooldownRecord)
    /\ Val(cooldownRecord).cooldown_until <= response.arrivedAt
    /\ now - Val(cooldownRecord).change_timestamp <= COOLDOWN_RESET_PERIOD_MS

\* C33: a change made within 24 h of the voter's latest change, once its
\* cooldown has ended, is decided on that latest row whether or not
\* cleanupExpiredCooldowns has run in between: the same effective change
\* count, the same duration, the same change_count for the next row.
C33_CleanupKeepsChangeCount ==
    \A cooldownRecord \in LatestRecords(Unpruned, response.address) :
        ChangeWhileCooled(cooldownRecord) =>
            /\ EffectiveChangeCount(response.seenRecord, response.arrivedAt)
                   = Val(cooldownRecord).change_count
            /\ Val(response.cooldownDuration)
                   = calculateCooldownDuration(Val(cooldownRecord).change_count)
            /\ RecordChangeCount(response.seenRecord, response.arrivedAt)
                   = Val(cooldownRecord).change_count + 1

(***************************************************************************)
(* The supervising watcher.  It forks the server, and restarts it when it  *)
(* has crashed; SIGINT and SIGTERM make it stop the child and exit.  The   *)
(* children are operating-system processes: each one runs until it exits   *)
(* by itself or is killed; its 'exit' event reaches the watcher later.     *)
(* Timers hold the time left until they are due; time passes in steps of   *)
(* one second while a timer is pending.  The model covers children that    *)
(* fork has started.                                                       *)
(***************************************************************************)
MaxSpawns == 3
MaxSignals == 2
RESTART_DELAY_MS == 1000
KILL_TIMEOUT_MS == 5000
TimerStep == 1000

\* A process fork has started.
AliveChild == [alive |-> TRUE, code |-> Null, signal |-> Null, delivered |-> FALSE]

\* How a child ends by itself or by a signal from outside the watcher:
\* process.exit(code), or death by signal (code null).
ExitReasons ==
    {<<Some(0), Null>>, <<Some(1), Null>>,
     <<Null, Some("SIGINT")>>, <<Null, Some("SIGTERM")>>, <<Null, Some("SIGKILL")>>}

\* The children that are alive.
AliveChildren(w) == {i \in DOMAIN w.children : w.children[i].alive}

\* child.kill(signal) on a process that has ended does nothing; SIGKILL
\* ends a live process; SIGINT is left to the child's handler.
kill(w, signal) ==
    IF signal = "SIGKILL" /\ Val(w.child) \in AliveChildren(w)
        THEN [w EXCEPT !.children[Val(w.child)] =
                  [@ EXCEPT !.alive = FALSE, !.signal = Some("SIGKILL")]]
    ELSE w

\* process.exit(code) of the watcher: its timers die with it.
watcherExit(w, code) ==
    [w EXCEPT !.running = FALSE, !.exitCode = Some(code),
              !.restartTimers = <<>>, !.killTimers = <<>>]

\* The 'exit' handler without the test of intentionalExit.
exitHandlerUnawareOfShutdown(w, code, signal) ==
    IF code # Some(0) /\ signal \notin {Some("SIGINT"), Some("SIGTERM")}
        THEN [w EXCEPT !.child = Null,
                       !.restartTimers = Append(@, RESTART_DELAY_MS)]
    ELSE watcherExit([w EXCEPT !.child = Null],
                     IF IsNull(code) THEN 1 ELSE Val(code))

\* child.on('exit', (code, signal) => { ... }): the body of the handler.
exitHandler(w, code, signal) ==
    IF w.intentionalExit THEN watcherExit([w EXCEPT !.child = Null], 0)
    ELSE IF code # Some(0) /\ signal \notin {Some("SIGINT"), Some("SIGTERM")}
        THEN [w EXCEPT !.child = Null,
                       !.restartTimers = Append(@, RESTART_DELAY_MS)]
    ELSE watcherExit([w EXCEPT !.child = Null],
                     IF IsNull(code) THEN 1 ELSE Val(code))

\* spawnServer()
spawnServerOn(w) ==
    IF ~IsNull(w.child) THEN w
    ELSE [w EXCEPT !.children = Append(@, AliveChild),
                   !.child = Some(Len(w.children) + 1)]

WatcherUnchanged ==
    /\ UNCHANGED <<now, chainBlock, holdersCache, user_votes, vote_change_history,
                   pool_info, reqs, response, submitted, ticks, accepted, probe>>
    /\ UNCHANGED <<claimVars, positionVars, rateVars, holderVars, pingVars>>

\* A child ends: the server calls process.exit, crashes, or is killed from
\* outside.
ChildExits(i, reason) ==
    /\ i \in AliveChildren(watcher)
    /\ watcher' = [watcher EXCEPT !.children[i] =
           [@ EXCEPT !.alive = FALSE, !.code = reason[1], !.signal = reason[2]]]
    /\ WatcherUnchanged

\* The 'exit' event of the child i reaches the watcher.
onExit(i) ==
    /\ watcher.running
    /\ i \in DOMAIN watcher.children
    /\ ~watcher.children[i].alive
    /\ ~watcher.children[i].delivered
    /\ watcher' = exitHandler([watcher EXCEPT !.children[i].delivered = TRUE],
                              watcher.children[i].code, watcher.children[i].signal)
    /\ WatcherUnchanged

\* setTimeout(spawnServer, 1000) is due.
restartTimer(k) ==
    /\ watcher.running
    /\ k \in DOMAIN watcher.restartTimers
    /\ watcher.restartTimers[k] = 0
    /\ Len(watcher.children) < MaxSpawns
    /\ watcher' = spawnServerOn(
           [watcher EXCEPT !.restartTimers =
                SubSeq(@, 1, k - 1) \o SubSeq(@, k + 1, Len(@))])
    /\ WatcherUnchanged

\* process.on('SIGINT' / 'SIGTERM', () => gracefulShutdown(signal))
gracefulShutdown(signal) ==
    /\ watcher.running
    /\ watcher.signals < MaxSignals
    /\ LET w == [watcher EXCEPT !.intentionalExit = TRUE,
                                !.signals = @ + 1,
                                !.sinceSignal = IF IsNull(@) THEN Some(0) ELSE @]
       IN  watcher' =
               IF ~IsNull(w.child)
                   THEN [kill(w, "SIGINT") EXCEPT
                            !.killTimers = Append(@, KILL_TIMEOUT_MS)]
               ELSE watcherExit(w, 0)
    /\ WatcherUnchanged

\* The 5 seconds timeout of gracefulShutdown is due.
killTimer(k) ==
    /\ watcher.running
    /\ k \in DOMAIN watcher.killTimers
    /\ watcher.killTimers[k] = 0
    /\ LET w == [watcher EXCEPT !.killTimers =
                     SubSeq(@, 1, k - 1) \o SubSeq(@, k + 1, Len(@))]
       IN  watcher' = IF ~IsNull(w.child) THEN kill(w, "SIGKILL") ELSE w
    /\ WatcherUnchanged

\* A second passes.
Elapsed(timers) ==
    [k \in DOMAIN timers |-> IF timers[k] > TimerStep THEN timers[k] - TimerStep ELSE 0]

WatcherTick ==
    /\ watcher.running
    /\ \/ \E k \in DOMAIN watcher.restartTimers : watcher.restartTimers[k] > 0
       \/ \E j \in DOMAIN watcher.killTimers : watcher.killTimers[j] > 0
    /\ watcher' = [watcher EXCEPT
           !.restartTimers = Elapsed(@),
           !.killTimers = Elapsed(@),
           !.sinceSignal = IF IsNull(@) THEN @
                           ELSE Some(Min(Val(@) + TimerStep, KILL_TIMEOUT_MS))]
    /\ WatcherUnchanged

\* The watcher has been started: spawnServer() has run once.
InitWatcher ==
    /\ now = 0
    /\ chainBlock = StartBlock
    /\ InitStore
    /\ reqs = [r \in Slots |-> IdleReq]
    /\ response = NoResponse
    /\ submitted = 0
    /\ ticks = 0
    /\ probe = Null
    /\ NoClaims
    /\ PositionsIdle
    /\ RateIdle
    /\ HoldersIdle
    /\ PingIdle
    /\ watcher = spawnServerOn(
           [running |-> TRUE, exitCode |-> Null, child |-> Null,
            intentionalExit |-> FALSE, children |-> <<>>, restartTimers |-> <<>>,
            killTimers |-> <<>>, signals |-> 0, sinceSignal |-> Null])

NextWatcher ==
    \/ \E i \in 1..MaxSpawns, reason \in ExitReasons : ChildExits(i, reason)
    \/ \E i \in 1..MaxSpawns : onExit(i)
    \/ \E k \in 1..1 : restartTimer(k)
    \/ \E signal \in {"SIGINT", "SIGTERM"} : gracefulShutdown(signal)
    \/ \E k \in 1..MaxSignals : killTimer(k)
    \/ WatcherTick

\* The event loop runs what is due: time passes while a timer is pending, a
\* due timer fires, and the 'exit' event of a child that has ended is
\* delivered.  That a child ends by itself is not assumed.
SpecWatcher ==
    /\ InitWatcher
    /\ [][NextWatcher]_vars
    /\ WF_vars(WatcherTick)
    /\ WF_vars(\E k \in 1..1 : restartTimer(k))
    /\ WF_vars(\E k \in 1..MaxSignals : killTimer(k))
    /\ WF_vars(\E i \in 1..MaxSpawns : onExit(i))

(***************************************************************************)
(* Properties of the watcher (specification SpecWatcher).                  *)
(***************************************************************************)
\* A step that forks a server.
Forks == Len(watcher'.children) > Len(watcher.children)

\* A step in which the watcher learns that child i has crashed: a non-zero
\* or missing exit code and no termination signal, no shutdown under way.
CrashReported(i) ==
    /\ i \in DOMAIN watcher.children
    /\ ~watcher.children[i].delivered
    /\ watcher'.children[i].delivered
    /\ watcher.children[i].code # Some(0)
    /\ watcher.children[i].signal \notin {Some("SIGINT"), Some("SIGTERM")}
    /\ watcher.signals = 0

\* A step in which a 5 seconds timeout of gracefulShutdown fires.
ForcedKill ==
    /\ watcher'.running
    /\ Len(watcher'.killTimers) < Len(watcher.killTimers)

\* C34: a crash of the child (non-zero exit, no termination signal) makes
\* the watcher schedule a restart, which forks a new server unless the
\* watcher stops first; no server is forked once SIGINT or SIGTERM has
\* been received; after such a signal the watcher eventually exits, its
\* timeout killing the child no sooner than 5 seconds after the signal;
\* and at no time are two children alive.
C34_WatcherSupervision ==
    /\ [](Cardinality(AliveChildren(watcher)) <= 1)
    /\ [][Forks => watcher.signals = 0]_vars
    /\ [][\A i \in 1..MaxSpawns : CrashReported(i) =>
              /\ watcher'.running
              /\ watcher'.restartTimers = <<RESTART_DELAY_MS>>]_vars
    /\ \A n \in 1..(MaxSpawns - 1) :
           (watcher.running /\ Len(watcher.children) = n
                /\ watcher.restartTimers # <<>>)
               ~> (Len(watcher.children) = n + 1 \/ ~watcher.running)
    /\ [][ForcedKill =>
              /\ Val(watcher.sinceSignal) >= KILL_TIMEOUT_MS
              /\ AliveChildren(watcher') = {}]_vars
    /\ (watcher.signals > 0) ~> ~watcher.running

\* Witness of C34: the first server crashed and was replaced, the
\* replacement ignored the SIGINT of the shutdown and was killed when the
\* 5 seconds were over, and the watcher has exited.
C34_RestartedThenForcedShutdown ==
    /\ ~watcher.running
    /\ watcher.exitCode = Some(0)
    /\ Len(watcher.children) = 2
    /\ watcher.children[1].code = Some(1)
    /\ watcher.children[2].signal = Some("SIGKILL")
    /\ watcher.sinceSignal = Some(KILL_TIMEOUT_MS)
    /\ watcher.signals = 1

(***************************************************************************)
(* GET /pools: the rate limit on the client IP, the votes read from the    *)
(* store, and behind an await the details of each pool that a holder       *)
(* votes for, from pool_info or from the chain.  The database and the      *)
(* provider may fail with an error of their own; an error text is the      *)
(* sequence of the template's pieces.  probe holds the request in flight,  *)
(* response its answer.                                                    *)
(***************************************************************************)
MaxPoolsRequests == 2

\* What the database and the RPC provider say when they fail.
InternalErrors ==
    {"SQLITE_BUSY: database is locked", "Error: could not detect network"}

\* A text that is written down in the source as it is.
Text(str) == <<str>>

\* sanitizeError(internalError, genericMessage): the internal text goes to
\* the log, the generic message to the caller.
sanitizeError(internalError, genericMessage) == genericMessage

\* The pools of the votes whose voter holds alpha.
activePools(votes, holders) ==
    LET validVoters ==
            {a \in DOMAIN votes :
                /\ ~IsNull(votes[a])
                /\ \E h \in holders : h.address = a /\ h.alphaBalanceRaw > 0}
    IN  UNION {{Val(votes[a]).pools[i].address : i \in DOMAIN Val(votes[a]).pools} :
                  a \in validVoters}

\* getOrFetchPoolInfo(db, provider, poolAddress): [poolInfo, error] for
\* each way the database and the chain can answer, and whether the row is
\* in pool_info afterwards.
PoolInfoResults(stored, poolAddress) ==
    {[poolInfo |-> Null, error |-> Some(<<"Database error: ", e>>), stored |-> stored] :
        e \in InternalErrors}
    \cup (IF poolAddress \in stored
              THEN {[poolInfo |-> Some(poolAddress), error |-> Null, stored |-> stored]}
          ELSE {[poolInfo |-> Null,
                 error |-> Some(<<"Failed to fetch pool details: ", e>>),
                 stored |-> stored] : e \in InternalErrors}
               \cup {[poolInfo |-> Some(poolAddress), error |-> Null,
                      stored |-> after] :
                         after \in {stored, stored \cup {poolAddress}}})

\* One element of poolsWithDetails.
PoolWithDetails(poolAddress, result) ==
    [address |-> poolAddress,
     token0 |-> result.poolInfo,
     poolInfoError |-> result.error]

PoolsFailure(msg) == [success |-> FALSE, error |-> Some(msg), pools |-> {}]

PoolsUnchanged ==
    /\ UNCHANGED <<now, chainBlock, holdersCache, user_votes, vote_change_history,
                   reqs, ticks, accepted>>
    /\ UNCHANGED <<claimVars, positionVars, holderVars, pingVars, watcherVars>>
    /\ UNCHANGED <<addressRequestCounts, admitted>>

\* GET /pools up to await db.all('SELECT ... FROM user_votes').
pools(clientIP) ==
    /\ IsNull(probe)
    /\ submitted < MaxPoolsRequests
    /\ submitted' = submitted + 1
    /\ LET ip == checkRateLimit(clientIP, ipRequestCounts, MAX_REQUESTS_PER_IP, now)
       IN  /\ ipRequestCounts' = ip.storage
           /\ IF ~ip.allowed
                  THEN /\ response' = PoolsFailure(
                              sanitizeError(Text("Rate limit exceeded"),
                                            Text("Too many requests")))
                       /\ UNCHANGED probe
              ELSE /\ probe' = Some([pc |-> "rows", activePools |-> {}])
                   /\ UNCHANGED response
    /\ UNCHANGED pool_info
    /\ PoolsUnchanged

\* db.all answers, or throws into the catch of the handler.
poolsRows ==
    /\ ~IsNull(probe)
    /\ Val(probe).pc = "rows"
    /\ \/ /\ probe' = Some([pc |-> "details",
                            activePools |-> activePools(user_votes, holdersCache)])
          /\ UNCHANGED response
       \/ \E e \in InternalErrors :
            /\ response' = PoolsFailure(
                   sanitizeError(<<"DB error: ", e>>, Text("Database operation failed")))
            /\ probe' = Null
    /\ UNCHANGED <<pool_info, submitted, ipRequestCounts>>
    /\ PoolsUnchanged

\* await Promise.all(activePools.map(getOrFetchPoolInfo)), then the answer.
poolsDetails ==
    /\ ~IsNull(probe)
    /\ Val(probe).pc = "details"
    /\ \E results \in [Val(probe).activePools ->
                          UNION {PoolInfoResults(pool_info, p) : p \in Val(probe).activePools}] :
        /\ \A p \in Val(probe).activePools : results[p] \in PoolInfoResults(pool_info, p)
        /\ pool_info' = pool_info \cup UNION {results[p].stored : p \in Val(probe).activePools}
        /\ response' = [success |-> TRUE, error |-> Null,
                        pools |-> {PoolWithDetails(p, results[p]) :
                                      p \in Val(probe).activePools}]
    /\ probe' = Null
    /\ UNCHANGED <<submitted, ipRequestCounts>>
    /\ PoolsUnchanged

\* The votes of a store the server runs on: none, or the voter's on a pool
\* whose row is in pool_info, or on one whose row is not.
InitPools ==
    /\ now = 0
    /\ chainBlock = StartBlock
    /\ \E votedPool \in {Null, Some(PoolA), Some(PoolB)} :
           user_votes = [a \in Addresses |->
               IF a \in Voters /\ ~IsNull(votedPool)
                   THEN VoteOf(Val(votedPool), StartBlock - BLOCK_WINDOW)
               ELSE Null]
    /\ vote_change_history = <<>>
    /\ pool_info = {PoolA}
    /\ holdersCache = HolderSnapshot
    /\ accepted = [a \in Addresses |-> Null]
    /\ reqs = [r \in Slots |-> IdleReq]
    /\ response = NoResponse
    /\ submitted = 0
    /\ ticks = 0
    /\ probe = Null
    /\ NoClaims
    /\ PositionsIdle
    /\ HoldersIdle
    /\ PingIdle
    /\ WatcherIdle
    /\ addressRequestCounts = [k \in {"vote_5Alice", "ping_5Ab", "ping_5Ef"} |-> Null]
    /\ admitted = [k \in {"10.0.0.1", "vote_5Alice"} |-> <<>>]
    /\ \E count \in {0, MAX_REQUESTS_PER_IP - 1} :
           ipRequestCounts = [k \in {"10.0.0.1"} |->
               IF count = 0 THEN Null
               ELSE Some([count |-> count, resetTime |-> RATE_LIMIT_WINDOW_MS])]

NextPools ==
    \/ \E clientIP \in ClientIPs : pools(clientIP)
    \/ poolsRows
    \/ poolsDetails
    \/ \E step \in RateSteps : RateTick(step)

SpecPools == InitPools /\ [][NextPools]_vars

(***************************************************************************)
(* What a response tells about internal errors (specification SpecPools).  *)
(***************************************************************************)
\* The generic category strings of the sanitizeError calls.
GenericMessages ==
    {Text("Request failed"), Text("Too many requests"),
     Text("Authentication failed"), Text("Invalid Uniswap V3 pools"),
     Text("Failed to store pool information"),
     Text("Failed to fetch current block"),
     Text("Vote change blocked by cooldown"),
     Text("Database operation failed"), Text("Operation failed")}

\* The error fields of the answer of GET /pools.
ErrorFields ==
    (IF IsNull(response.error) THEN {} ELSE {Val(response.error)})
        \cup {Val(pool.poolInfoError) :
                  pool \in {q \in response.pools : ~IsNull(q.poolInfoError)}}

\* C35: whatever fails upstream, every error field of a response holds one
\* of the generic category strings, never the text of the failure.
C35_ResponsesCarryGenericErrorsOnly ==
    response # NoResponse =>
        \A field \in ErrorFields :
            /\ field \in GenericMessages
            /\ \A i \in DOMAIN field : field[i] \notin InternalErrors

(***************************************************************************)
(* The stored block number under concurrent requests (specification Spec). *)
(***************************************************************************)
\* C36: under any interleaving of the requests of a voter, the block_number
\* of the voter's stored vote never decreases.
C36_StoredBlockNeverDecreases ==
    [][\A a \in Addresses :
          (~IsNull(user_votes[a]) /\ ~IsNull(user_votes'[a])) =>
              Val(user_votes'[a]).block_number >= Val(user_votes[a]).block_number]_vars

\* The scan of slot s returns without error in this step, and its caller
\* installs the result.
Installs(s) ==
    /\ holderScans[s].pc # "idle"
    /\ holderScans'[s].pc = "idle"
    /\ holderScans'[s].outcome = "ok"

\* C37: holdersCache.lastUpdated never decreases, and no scan installs its
\* result over the result of a scan that started after it, also when the
\* refreshes overlap.
C37_NewerSnapshotNeverReplacedByOlder ==
    /\ [][holdersCacheState'.lastUpdated >= holdersCacheState.lastUpdated]_vars
    /\ [][\A s \in ScanSlots :
             (Installs(s) /\ holderScans[s].caller = "refreshHoldersCacheIfNeeded") =>
                 holderScans[s].startedAt >= holdersCacheState.lastUpdated]_vars

(***************************************************************************)
(* POST /updateVotes from the rate limits to the signature check: the      *)
(* client IP is counted, then vote_<address>, and only then is the         *)
(* signature verified.  What follows the signature check does not touch    *)
(* the rate-limit maps; a request that passes is left without an answer    *)
(* here.  admitted keeps the message and the signature of each request    *)
(* it counts against vote_<address>, and probe the body of the last one.   *)
(***************************************************************************)
MaxQuotaRequests == 6

\* The handler from the rate limits to the signature check.
updateVotesArrival(clientIP, address, poolEntries, blockNumber, signature) ==
    LET ip == checkRateLimit(clientIP, ipRequestCounts, MAX_REQUESTS_PER_IP, now)
        vote == checkRateLimit(VoteKey(address), addressRequestCounts,
                               MAX_VOTE_UPDATES_PER_ADDRESS, now)
        verified == verifySignature(VoteMessage(poolEntries, blockNumber),
                                    signature, address)
        req == [IdleReq EXCEPT !.address = address, !.poolEntries = poolEntries,
                               !.blockNumber = blockNumber, !.arrivedAt = now]
        result == IF ~ip.allowed \/ ~vote.allowed
                      THEN Failure(sanitizeError(Text("Rate limit exceeded"),
                                                 "Too many requests"))
                  ELSE IF ~verified
                      THEN Failure(sanitizeError(Text("Invalid signature"),
                                                 "Authentication failed"))
                  ELSE NoResult
    IN  /\ submitted < MaxQuotaRequests
        /\ submitted' = submitted + 1
        /\ ipRequestCounts' = ip.storage
        /\ addressRequestCounts' = IF ip.allowed THEN vote.storage
                                   ELSE addressRequestCounts
        /\ admitted' =
               [k \in DOMAIN admitted |->
                   IF k = VoteKey(address) /\ ip.allowed /\ vote.allowed
                       THEN Append(admitted[k],
                                [time |-> now,
                                 resetTime |-> Val(vote.storage[k]).resetTime,
                                 message |-> VoteMessage(poolEntries, blockNumber),
                                 signature |-> signature])
                   ELSE admitted[k]]
        /\ response' = Returned(req, result, <<>>)
        /\ probe' = Some([stage |-> "updateVotes", address |-> address,
                           message |-> VoteMessage(poolEntries, blockNumber),
                           signature |-> signature])
        /\ UNCHANGED <<now, ticks, chainBlock, holdersCache, user_votes,
                       vote_change_history, pool_info, reqs, accepted>>
        /\ UNCHANGED <<claimVars, positionVars, holderVars, pingVars, watcherVars>>

\* The signatures of the requests: the voter's own, and one that does not
\* verify for the voter's address.
QuotaSignatures(poolEntries, blockNumber) ==
    {SignatureOf(signer, VoteMessage(poolEntries, blockNumber)) :
        signer \in {"5Alice", "5Bob"}}

NextQuota ==
    \/ \E clientIP \in ClientIPs, address \in Voters :
        \E signature \in QuotaSignatures(<<Entry(PoolA, "1")>>, chainBlock) :
            updateVotesArrival(clientIP, address, <<Entry(PoolA, "1")>>,
                               chainBlock, signature)
    \/ rateLimitCleanup
    \/ \E step \in RateSteps : RateTick(step)

SpecQuota == InitRateLimit /\ [][NextQuota]_vars

(***************************************************************************)
(* The voter's quota (specification SpecQuota).                            *)
(***************************************************************************)
\* A request arrives in this step.
Arrives == submitted' = submitted + 1

\* The requests counted against vote_<address> in the window that is open
\* at time t, and signed by the voter.
CountedOfVoter(address, t) ==
    {i \in DOMAIN admitted[VoteKey(address)] :
        /\ admitted[VoteKey(address)][i].resetTime >= t
        /\ verifySignature(admitted[VoteKey(address)][i].message,
                           admitted[VoteKey(address)][i].signature, address)}

\* C38: a request whose signature does not verify leaves the allowance of
\* vote_<address> as it was, and a request signed by the voter is rejected
\* as rate-limited only when the window of vote_<address> has admitted its
\* full number of requests signed by the voter.
C38_ForgedRequestsLeaveQuota ==
    /\ [][(Arrives /\ response'.result.error = "Authentication failed") =>
              UNCHANGED addressRequestCounts]_vars
    /\ [][(/\ Arrives
           /\ response'.result.error = "Too many requests"
           /\ verifySignature(Val(probe').message, Val(probe').signature,
                              Val(probe').address)) =>
              Cardinality(CountedOfVoter(Val(probe').address, now))
                  >= MAX_VOTE_UPDATES_PER_ADDRESS]_vars

(***************************************************************************)
(* POST /claimAddress after a first claim: the server has accepted the     *)
(* claim of hotkey A for the Ethereum key a, made at block 20, and holds   *)
(* the binding it wrote.  Whoever saw that request can send it again.      *)
(***************************************************************************)
\* The claim the server has accepted, and its request.
FirstClaim == ClaimBody(HonestClaim(HotkeyA, "a", "20"))

FirstClaimReq ==
    [IdleClaim EXCEPT !.address = FirstClaim.address,
                      !.signature = Some(FirstClaim.signature),
                      !.message = FirstClaim.message,
                      !.currentChainBlock = StartBlock]

InitReplay ==
    /\ now = 0
    /\ chainBlock = StartBlock
    /\ InitStore
    /\ reqs = [r \in Slots |-> IdleReq]
    /\ response = NoResponse
    /\ submitted = 0
    /\ ticks = 0
    /\ probe = Null
    /\ address_map = setAddressMapping({}, HotkeyA,
                                       ethSignerLower(EthSignerOf(FirstClaim.message)), 0)
    /\ claims = [r \in Slots |-> IdleClaim]
    /\ claimResponse = ClaimReturned(FirstClaimReq,
                                     ClaimSuccess("Address mapping created"), {})
    /\ ServerIdle

SpecReplay == InitReplay /\ [][NextClaim]_vars

(***************************************************************************)
(* Replay of a superseded claim (specification SpecReplay).                *)
(***************************************************************************)
\* The Ethereum addresses bound to a hotkey.
BoundTo(rows, ss58) == {row.ethereumAddress : row \in {x \in rows : x.ss58Address = ss58}}

\* C39: once the binding of hotkey A has been changed from the Ethereum key
\* of its first claim to another one, a request that carries the message of
\* the first claim again does not bring the first binding back, although the
\* block of that message is still within the window.
C39_SupersededClaimNotReplayed ==
    [][(/\ BoundTo(address_map, HotkeyA) # {}
        /\ ethSignerLower(EthSignerOf(FirstClaim.message))
               \notin BoundTo(address_map, HotkeyA)
        /\ claimResponse'.returned
        /\ claimResponse'.message = FirstClaim.message
        /\ Number(BlockNumStrOf(FirstClaim.message)).val >= chainBlock - BLOCK_WINDOW)
       => ethSignerLower(EthSignerOf(FirstClaim.message))
              \notin BoundTo(address_map', HotkeyA)]_vars

(***************************************************************************)
(* The subgraph fetch, batch by batch.  getMinerLiquidityPositions asks    *)
(* for the positions of up to batchSize owners at a time; a batch whose    *)
(* response is not OK or carries GraphQL errors is skipped, and in the end *)
(* every miner without an entry gets an empty list.  Pool ticks stand      *)
(* still here, so that whatever a complete fetch returns stays the same.   *)
(***************************************************************************)
batchSize == 100

\* What a batch request can come to: a usable response, !r.ok, data.errors.
BatchOutcomes == {"ok", "notOk", "errors"}

\* The batch a miner's address is sent in, and the batches of n addresses.
BatchOf(i) == ((i - 1) \div batchSize) + 1
Batches(n) == 1..((n + batchSize - 1) \div batchSize)

\* The result of the loop over the batches, for the positions the subgraph
\* holds and the outcome of each batch.
getMinerLiquidityPositions(subgraph, outcomes) ==
    [i \in DOMAIN subgraph |->
        IF outcomes[BatchOf(i)] = "ok" THEN subgraph[i]
        ELSE Miner(subgraph[i].minerId, <<>>)]

\* await getMinerLiquidityPositions: an error is thrown to the caller, a
\* result is filtered with isValidPosition.
PositionsFetchBatches(c) ==
    /\ positionCalls[c].pc = "fetching"
    /\ \/ /\ positionCalls' = [positionCalls EXCEPT ![c] = IdlePositionCall]
          /\ positionsResult' =
                 Some([ok |-> FALSE, positions |-> <<>>, fromCache |-> FALSE])
       \/ \E outcomes \in [Batches(Len(SubgraphPositions)) -> BatchOutcomes] :
            /\ positionCalls' = [positionCalls EXCEPT ![c] =
                   [pc |-> "enhancing",
                    positionsByMiner |-> filteredPositions(
                        getMinerLiquidityPositions(SubgraphPositions, outcomes)),
                    fromCache |-> FALSE]]
            /\ UNCHANGED positionsResult
    /\ UNCHANGED <<now, ticks, liquidityPositionsCache, poolTick>>
    /\ PositionsUnchanged

NextBatches ==
    \/ \E c \in Slots : PositionsStart(c)
    \/ \E c \in Slots : PositionsFetchBatches(c)
    \/ \E c \in Slots : PositionsStore(c)
    \/ \E c \in Slots : PositionsReturn(c)
    \/ PositionsTick(LIQUIDITY_POSITIONS_CACHE_TTL_MS)

SpecBatches == InitPositions /\ [][NextBatches]_vars

(***************************************************************************)
(* The cache and failed batches (specification SpecBatches).               *)
(***************************************************************************)
\* What a fetch without a failed batch leaves after the filter.
CompletePositions == filteredPositions(SubgraphPositions)

\* C40: the positions cache holds nothing or the result of a fetch of which
\* no batch failed: no miner whose positions the subgraph holds appears in
\* the cache without them.
C40_CacheFilledFromCompleteFetch ==
    ~IsNull(liquidityPositionsCache.data) =>
        \A i \in DOMAIN CompletePositions :
            Val(liquidityPositionsCache.data)[i].positions
                = CompletePositions[i].positions

====
